---- MODULE Spec2Model ----
(***************************************************************************)
(* ClusterFit: the bin-packing simulation and ranking core.                *)
(*                                                                         *)
(* The module models BestFitDecreasing.Pack (internal/simulation/bfd.go)   *)
(* step by step, its caller Engine.runOne, Scorer.RankResults,             *)
(* GenerateScenarios, the goroutines of Engine.RunAll, and the steps that  *)
(* prepare a run: ClusterState.ClassifyWorkloads, the sizing of a pod in   *)
(* buildClusterState, and Config.Validate, and the metrics derived from a  *)
(* packing: AnalyzeFragmentation and buildSimulationResult.  Each has a    *)
(* specification of its own over the shared variables.                     *)
(* Quantities are small integers: one CPU unit and one memory unit stand   *)
(* for a fixed number of millicores and bytes.  Floating-point ratios of   *)
(* the source are kept as exact fractions and compared by                  *)
(* cross-multiplication.                                                   *)
(***************************************************************************)
EXTENDS Integers, Sequences, FiniteSets, TLC

VARIABLES
    state,          \* model.ClusterState handed to the run
    scenario,       \* simulation.Scenario handed to the run
    cfgMaxNodes,    \* config.SimulationConfig.MaxNodes (simulation.max_nodes)
    via,            \* who called Pack: "none", "direct" or "engine"
    input,          \* the PackInput of the call
    ctxErr,         \* ctx.Err() != nil
    pc,             \* position inside Pack
    workloads,      \* Pack's sorted copy of input.Workloads
    i,              \* index of the next workload of the placement loop
    nodes,          \* Pack's []nodeState
    unschedulable,  \* Pack's unschedulable list
    placedOpen,     \* number of nodes opened by the placement loop
    result,         \* the returned PackResult, or the error
    scorer,         \* the simulation.Scorer
    results,        \* the []model.SimulationResult given to RankResults
    recs,           \* what RankResults returned
    genTemplates,   \* the templates given to GenerateScenarios
    genStrategy,    \* its strategy argument
    genSpotRatio,   \* its spotRatio argument
    genMinNodes,    \* its minNodes argument
    generated,      \* the scenario list of each call made so far
    runScenarios,   \* number of scenarios given to RunAll
    packSteps,      \* workload iterations (context checks) of one Pack call
    packFails,      \* per scenario: the packer returns an error of its own
    parallelism,    \* Engine.Parallelism
    enginePc,       \* position of the goroutine running RunAll
    loopI,          \* loop index of RunAll's current loop
    wg,             \* the WaitGroup counter
    sem,            \* number of tokens in the semaphore channel
    workers,        \* the worker goroutines: position, arguments, locals
    slotResults,    \* the results slice
    slotErrs,       \* the errs slice
    slotWriters,    \* history: which workers wrote each index of the slices
    mustCancel,     \* history: workers with a context check ahead at cancellation
    successful,     \* the collector's successful slice
    runRecs,        \* recommendations returned by RunAll
    runErr,         \* error returned by RunAll
    classified,     \* what ClassifyWorkloads returned
    sample,         \* the query values of one pod, as buildClusterState reads them
    percentile,     \* CollectOptions.Percentile
    profile,        \* the WorkloadProfile built for the pod
    cfg,            \* the config.Config given to Validate
    validateErr,    \* what Validate returned
    aggMetrics,     \* the *model.ClusterAggregateMetrics given to buildSimulationResult
    simResult       \* the model.SimulationResult it returned

packVars == <<state, scenario, cfgMaxNodes, via, input, ctxErr, pc, workloads, i,
              nodes, unschedulable, placedOpen, result>>

rankVars == <<scorer, results, recs>>

genVars == <<genTemplates, genStrategy, genSpotRatio, genMinNodes, generated>>

engineVars == <<runScenarios, packSteps, packFails, parallelism, enginePc, loopI, wg, sem,
                workers, slotResults, slotErrs, slotWriters, mustCancel, successful,
                runRecs, runErr>>

prepVars == <<classified, sample, percentile, profile, cfg, validateErr>>

buildVars == <<aggMetrics, simResult>>

vars == <<packVars, rankVars, genVars, engineVars, prepVars, buildVars>>

-----------------------------------------------------------------------------
(* Bounds of the model *)

MaxWorkloads == 3

MaxTemplates == 2

\* Longest list of simulation results handed to RankResults.
MaxResults == 3

\* Longest list of templates handed to GenerateScenarios.
MaxFleet == 4

\* Longest list of scenarios handed to RunAll.
MaxScenarios == 3

-----------------------------------------------------------------------------
(* Data *)

CapacityOnDemand == "on-demand"

CapacitySpot == "spot"

\* A workload profile: identity (its position in the caller's slice) and
\* effective demand.
Workload(id, cpu, mem) ==
    [id |-> id, EffectiveCPUMillis |-> cpu, EffectiveMemoryBytes |-> mem]

\* The effective demands the sizing step hands over (always positive).
WorkloadShapes == {<<1, 1>>, <<2, 1>>, <<1, 3>>}

\* The candidate instance types.
Catalogue ==
    { [InstanceType |-> "m5.large", InstanceFamily |-> "m5",
       AllocatableCPUMillis |-> 2, AllocatableMemoryBytes |-> 2,
       MaxPods |-> 2, OnDemandPricePerHour |-> 1,
       CapacityType |-> CapacityOnDemand],
      [InstanceType |-> "m5.xlarge", InstanceFamily |-> "m5",
       AllocatableCPUMillis |-> 4, AllocatableMemoryBytes |-> 4,
       MaxPods |-> 2, OnDemandPricePerHour |-> 2,
       CapacityType |-> CapacityOnDemand],
      [InstanceType |-> "r5.large", InstanceFamily |-> "r5",
       AllocatableCPUMillis |-> 2, AllocatableMemoryBytes |-> 4,
       MaxPods |-> 0, OnDemandPricePerHour |-> 1,
       CapacityType |-> CapacityOnDemand] }

ResourceQuantity(cpu, mem) == [CPUMillis |-> cpu, MemoryBytes |-> mem]

\* Sequences over S of length at most n.
SeqUpTo(S, n) == UNION {[1..k -> S] : k \in 0..n}

\* Sequences over S of length at most n without repetition.
DistinctSeqUpTo(S, n) ==
    {s \in SeqUpTo(S, n) : \A a, b \in DOMAIN s : a # b => s[a] # s[b]}

WorkloadLists ==
    {[k \in DOMAIN s |-> Workload(k, s[k][1], s[k][2])] :
        s \in SeqUpTo(WorkloadShapes, MaxWorkloads)}

DaemonSetLists == {<<>>, <<Workload(1, 1, 1)>>}

SystemReservedValues == {ResourceQuantity(0, 0), ResourceQuantity(1, 0)}

TemplateLists == DistinctSeqUpTo(Catalogue, MaxTemplates)

MaxNodesValues == {0, 1, 2}

\* Spot ratios as fractions num/den.
SpotRatios == {[num |-> 0, den |-> 1], [num |-> 3, den |-> 10], [num |-> 1, den |-> 2]}

Null == [none |-> TRUE]

\* GenerateScenarios is not part of the run.
GenUnused ==
    /\ genTemplates = <<>>
    /\ genStrategy = "none"
    /\ genSpotRatio = [num |-> 0, den |-> 1]
    /\ genMinNodes = 0
    /\ generated = <<>>

\* buildSimulationResult is not part of the run.
BuildUnused ==
    /\ aggMetrics = Null
    /\ simResult = Null

\* Classification, sizing and validation are not part of the run.
PrepUnused ==
    /\ classified = Null
    /\ sample = Null
    /\ percentile = 0
    /\ profile = Null
    /\ cfg = Null
    /\ validateErr = <<"none">>

\* RunAll is not part of the run.
EngineUnused ==
    /\ runScenarios = 0
    /\ packSteps = 0
    /\ packFails = <<>>
    /\ parallelism = 1
    /\ enginePc = "none"
    /\ loopI = 1
    /\ wg = 0
    /\ sem = 0
    /\ workers = <<>>
    /\ slotResults = <<>>
    /\ slotErrs = <<>>
    /\ slotWriters = <<>>
    /\ mustCancel = {}
    /\ successful = <<>>
    /\ runRecs = <<>>
    /\ runErr = <<"none">>

\* Pack is not part of the run (pc is set by the specification).
PackUnused ==
    /\ state = Null
    /\ scenario = Null
    /\ cfgMaxNodes = 0
    /\ via = "none"
    /\ input = Null
    /\ ctxErr = FALSE
    /\ workloads = <<>>
    /\ i = 1
    /\ nodes = <<>>
    /\ unschedulable = <<>>
    /\ placedOpen = 0
    /\ result = Null

\* RankResults is not part of the run.
RankUnused ==
    /\ scorer = Null
    /\ results = <<>>
    /\ recs = <<>>

-----------------------------------------------------------------------------
(* Helpers *)

Max2(a, b) == IF a >= b THEN a ELSE b

Min2(a, b) == IF a <= b THEN a ELSE b

SetMax(S) == CHOOSE x \in S : \A y \in S : y <= x

RECURSIVE SumOver(_, _)
\* Sum of f[k] over the finite index set S.
SumOver(f, S) ==
    IF S = {} THEN 0
    ELSE LET k == CHOOSE x \in S : TRUE IN f[k] + SumOver(f, S \ {k})

\* One step of an insertion sort over indices: x moves left past every index
\* it must precede, and stops at the first one it need not precede.
InsertStable(sorted, x, less) ==
    LET stops == {j \in 1..Len(sorted) : ~less[x, sorted[j]]}
        p == IF stops = {} THEN 0 ELSE SetMax(stops)
    IN  SubSeq(sorted, 1, p) \o <<x>> \o SubSeq(sorted, p + 1, Len(sorted))

\* sort.SliceStable: less[a, b] says whether the element at index a of s must
\* come before the one at index b; elements it does not order keep their order.
SliceStable(s, less) ==
    LET f[k \in 0..Len(s)] ==
            IF k = 0 THEN <<>> ELSE InsertStable(f[k - 1], k, less)
        order == f[Len(s)]
    IN  [p \in 1..Len(s) |-> s[order[p]]]

-----------------------------------------------------------------------------
(* internal/simulation/bfd.go *)

daemonSetOverhead(daemons) ==
    ResourceQuantity(
        SumOver([k \in DOMAIN daemons |-> daemons[k].EffectiveCPUMillis], DOMAIN daemons),
        SumOver([k \in DOMAIN daemons |-> daemons[k].EffectiveMemoryBytes], DOMAIN daemons))

\* <<maxCPU, maxMem>>, both starting from zero.
largestNodeCapacity(templates) ==
    <<SetMax({0} \cup {templates[k].AllocatableCPUMillis : k \in DOMAIN templates}),
      SetMax({0} \cup {templates[k].AllocatableMemoryBytes : k \in DOMAIN templates})>>

\* The CPU fraction alone.
dominanceCPUOnly(w, maxCPU, maxMem) == w.EffectiveCPUMillis * maxMem

\* max(cpu/maxCPU, mem/maxMem), kept as a numerator over maxCPU*maxMem.
dominance(w, maxCPU, maxMem) ==
    Max2(w.EffectiveCPUMillis * maxMem, w.EffectiveMemoryBytes * maxCPU)

sortByDominance(ws, templates) ==
    LET cap == largestNodeCapacity(templates)
        maxCPU == cap[1]
        maxMem == cap[2]
    IN  IF maxCPU = 0 \/ maxMem = 0 THEN ws
        ELSE SliceStable(ws, [a \in DOMAIN ws, b \in DOMAIN ws |->
                 dominance(ws[a], maxCPU, maxMem) > dominance(ws[b], maxCPU, maxMem)])

\* canFit with the memory comparison left out.
canFitIgnoresMemory(n, w) ==
    /\ w.EffectiveCPUMillis <= n.remainingCPU
    /\ n.podCount < n.template.MaxPods

canFit(n, w) ==
    /\ w.EffectiveCPUMillis <= n.remainingCPU
    /\ w.EffectiveMemoryBytes <= n.remainingMem
    /\ n.podCount < n.template.MaxPods

\* The sum of the remaining fractions in place of their Euclidean norm.
compositeRemainingSum(n, w) ==
    LET ac == n.template.AllocatableCPUMillis
        am == n.template.AllocatableMemoryBytes
        rc == n.remainingCPU - w.EffectiveCPUMillis
        rm == n.remainingMem - w.EffectiveMemoryBytes
    IN  IF ac = 0 \/ am = 0
        THEN [inf |-> TRUE, num |-> 0, den |-> 1]
        ELSE [inf |-> FALSE, num |-> rc * am + rm * ac, den |-> ac * am]

\* The square of the Euclidean norm of the remaining fractions, as the
\* fraction num/den; inf stands for math.MaxFloat64.
compositeRemaining(n, w) ==
    LET ac == n.template.AllocatableCPUMillis
        am == n.template.AllocatableMemoryBytes
        rc == n.remainingCPU - w.EffectiveCPUMillis
        rm == n.remainingMem - w.EffectiveMemoryBytes
    IN  IF ac = 0 \/ am = 0
        THEN [inf |-> TRUE, num |-> 0, den |-> 1]
        ELSE [inf |-> FALSE, num |-> rc * rc * am * am + rm * rm * ac * ac,
              den |-> ac * ac * am * am]

\* score < bestScore on float64 values.
ScoreLess(a, b) ==
    IF a.inf THEN FALSE
    ELSE IF b.inf THEN TRUE
    ELSE a.num * b.den < b.num * a.den

\* The search of Pack for the best-fitting open node: its index, 0 for none.
BestFitIndex(ns, w) ==
    LET scan[j \in 0..Len(ns)] ==
            IF j = 0 THEN [bestIdx |-> 0, bestScore |-> [inf |-> TRUE, num |-> 0, den |-> 1]]
            ELSE LET prev == scan[j - 1]
                     sc == compositeRemaining(ns[j], w)
                 IN  IF ~canFit(ns[j], w) THEN prev
                     ELSE IF ScoreLess(sc, prev.bestScore)
                          THEN [bestIdx |-> j, bestScore |-> sc]
                          ELSE prev
    IN  scan[Len(ns)].bestIdx

\* The first template that admits w, whatever its price.
selectFirstTemplate(templates, w, dsOverhead, sysReserved) ==
    LET admits == {k \in DOMAIN templates :
            /\ w.EffectiveCPUMillis <= templates[k].AllocatableCPUMillis
                   - dsOverhead.CPUMillis - sysReserved.CPUMillis
            /\ w.EffectiveMemoryBytes <= templates[k].AllocatableMemoryBytes
                   - dsOverhead.MemoryBytes - sysReserved.MemoryBytes}
    IN  IF admits = {} THEN 0 ELSE CHOOSE k \in admits : \A m \in admits : k <= m

\* The index of the chosen template, 0 for nil.
selectBestTemplate(templates, w, dsOverhead, sysReserved) ==
    LET scan[k \in 0..Len(templates)] ==
            IF k = 0 THEN [best |-> 0, isMax |-> TRUE, bestCost |-> 0]
            ELSE LET prev == scan[k - 1]
                     t == templates[k]
                     availCPU == t.AllocatableCPUMillis - dsOverhead.CPUMillis - sysReserved.CPUMillis
                     availMem == t.AllocatableMemoryBytes - dsOverhead.MemoryBytes - sysReserved.MemoryBytes
                 IN  IF w.EffectiveCPUMillis > availCPU \/ w.EffectiveMemoryBytes > availMem
                     THEN prev
                     ELSE IF prev.isMax \/ t.OnDemandPricePerHour < prev.bestCost
                          THEN [best |-> k, isMax |-> FALSE, bestCost |-> t.OnDemandPricePerHour]
                          ELSE prev
    IN  scan[Len(templates)].best

\* openNode that subtracts the daemonset overhead but not system_reserved.
openNodeForgetsReserved(tmpl, dsOverhead, sysReserved) ==
    [template     |-> tmpl,
     workloads    |-> <<>>,
     remainingCPU |-> tmpl.AllocatableCPUMillis - dsOverhead.CPUMillis,
     remainingMem |-> tmpl.AllocatableMemoryBytes - dsOverhead.MemoryBytes,
     podCount     |-> 0]

openNode(tmpl, dsOverhead, sysReserved) ==
    [template     |-> tmpl,
     workloads    |-> <<>>,
     remainingCPU |-> tmpl.AllocatableCPUMillis - dsOverhead.CPUMillis - sysReserved.CPUMillis,
     remainingMem |-> tmpl.AllocatableMemoryBytes - dsOverhead.MemoryBytes - sysReserved.MemoryBytes,
     podCount     |-> 0]

\* place that books the resources but does not list the workload.
placeLosesWorkload(n, w) ==
    [n EXCEPT !.remainingCPU = @ - w.EffectiveCPUMillis,
              !.remainingMem = @ - w.EffectiveMemoryBytes,
              !.podCount = @ + 1]

place(n, w) ==
    [n EXCEPT !.workloads = Append(@, w),
              !.remainingCPU = @ - w.EffectiveCPUMillis,
              !.remainingMem = @ - w.EffectiveMemoryBytes,
              !.podCount = @ + 1]

\* The cap test off by one: len(nodes) > input.MaxNodes.
AtNodeCapOffByOne(in, ns) == in.MaxNodes > 0 /\ Len(ns) > in.MaxNodes

\* input.MaxNodes > 0 && len(nodes) >= input.MaxNodes
AtNodeCap(in, ns) == in.MaxNodes > 0 /\ Len(ns) >= in.MaxNodes

\* The spot count truncated instead of rounded.
RoundSpotCountTruncates(n, spotRatio) == (n * spotRatio.num) \div spotRatio.den

\* int(math.Round(float64(n) * spotRatio)) for a ratio num/den >= 0.
RoundSpotCount(n, spotRatio) ==
    (2 * n * spotRatio.num + spotRatio.den) \div (2 * spotRatio.den)

\* CPU consumed on a node, as applySpotRatio and the result see it.
ConsumedCPU(n) == n.template.AllocatableCPUMillis - n.remainingCPU

applySpotRatio(ns, spotRatio) ==
    LET rounded == RoundSpotCount(Len(ns), spotRatio)
        spotCount == IF rounded > Len(ns) THEN Len(ns) ELSE rounded
        indices == SliceStable([k \in 1..Len(ns) |-> k],
                       [a \in DOMAIN ns, b \in DOMAIN ns |->
                            ConsumedCPU(ns[a]) < ConsumedCPU(ns[b])])
        posOf(idx) == CHOOSE p \in 1..Len(ns) : indices[p] = idx
    IN  IF rounded <= 0 THEN ns
        ELSE [idx \in 1..Len(ns) |->
                 [ns[idx] EXCEPT !.template.CapacityType =
                     IF posOf(idx) <= spotCount THEN CapacitySpot ELSE CapacityOnDemand]]

\* Utilization as the fraction n/d, zero when the capacity is zero.
Utilization(used, alloc) ==
    IF alloc > 0 THEN [n |-> used, d |-> alloc] ELSE [n |-> 0, d |-> 1]

\* One model.NodeAllocation of the result.
Allocation(n) ==
    LET usedCPU == n.template.AllocatableCPUMillis - n.remainingCPU
        usedMem == n.template.AllocatableMemoryBytes - n.remainingMem
    IN  [Template       |-> n.template,
         Workloads      |-> n.workloads,
         UsedCPU        |-> usedCPU,
         UsedMem        |-> usedMem,
         PodCount       |-> n.podCount,
         CPUUtilization |-> Utilization(usedCPU, n.template.AllocatableCPUMillis),
         MemUtilization |-> Utilization(usedMem, n.template.AllocatableMemoryBytes)]

-----------------------------------------------------------------------------
(* The state machine of one packing run *)

PackError == [err |-> "context canceled"]

Init ==
    /\ state \in [Workloads : WorkloadLists, DaemonSets : DaemonSetLists,
                  SystemReserved : SystemReservedValues]
    /\ scenario \in [InstanceTypes : TemplateLists, SpotRatio : SpotRatios, MinNodes : {0}]
    /\ cfgMaxNodes \in MaxNodesValues
    /\ via = "none"
    /\ input = Null
    /\ ctxErr = FALSE
    /\ pc = "call"
    /\ workloads = <<>>
    /\ i = 1
    /\ nodes = <<>>
    /\ unschedulable = <<>>
    /\ placedOpen = 0
    /\ result = Null
    /\ scorer = Null
    /\ results = <<>>
    /\ recs = <<>>
    /\ GenUnused
    /\ EngineUnused
    /\ PrepUnused
    /\ BuildUnused

\* A caller that fills PackInput itself, MaxNodes included (the package's
\* tests do).
PackCall ==
    /\ pc = "call"
    /\ input' = [Workloads      |-> state.Workloads,
                 DaemonSets     |-> state.DaemonSets,
                 NodeTemplates  |-> scenario.InstanceTypes,
                 SystemReserved |-> state.SystemReserved,
                 MaxNodes       |-> cfgMaxNodes,
                 MinNodes       |-> scenario.MinNodes,
                 SpotRatio      |-> scenario.SpotRatio]
    /\ via' = "direct"
    /\ pc' = "enter"
    /\ UNCHANGED <<buildVars, prepVars, engineVars, genVars, rankVars, state, scenario, cfgMaxNodes, ctxErr, workloads, i, nodes,
                   unschedulable, placedOpen, result>>

\* Engine.runOne: the PackInput it builds leaves MaxNodes at its zero value.
runOne ==
    /\ pc = "call"
    /\ input' = [Workloads      |-> state.Workloads,
                 DaemonSets     |-> state.DaemonSets,
                 NodeTemplates  |-> scenario.InstanceTypes,
                 SystemReserved |-> state.SystemReserved,
                 MaxNodes       |-> 0,
                 MinNodes       |-> scenario.MinNodes,
                 SpotRatio      |-> scenario.SpotRatio]
    /\ via' = "engine"
    /\ pc' = "enter"
    /\ UNCHANGED <<buildVars, prepVars, engineVars, genVars, rankVars, state, scenario, cfgMaxNodes, ctxErr, workloads, i, nodes,
                   unschedulable, placedOpen, result>>

\* The caller's slice with the sort applied to it instead of to a copy.
callerWorkloadsSortedInPlace(ws, sorted) == sorted

\* The caller's Workloads slice after Pack has sorted: Pack sorts a slice it
\* made and filled with copy, so the caller's backing array keeps its order.
callerWorkloads(ws, sorted) == ws

\* The caller's NodeTemplates after the spot assignment on node states ns:
\* openNode receives the template by value, so each node state owns a copy
\* and applySpotRatio writes CapacityType to the copies only.
callerTemplates(templates, ns) == templates

\* Pack up to its placement loop: the empty-template return, the copy of the
\* workloads and its sort.
PackEnter ==
    /\ pc = "enter"
    /\ IF Len(input.NodeTemplates) = 0
       THEN /\ result' = [Nodes |-> <<>>, UnschedulablePods |-> input.Workloads]
            /\ pc' = "done"
            /\ UNCHANGED <<workloads, input, state>>
       ELSE LET sorted == sortByDominance(input.Workloads, input.NodeTemplates)
            IN  /\ workloads' = sorted
                /\ input' = [input EXCEPT !.Workloads = callerWorkloads(@, sorted)]
                /\ state' = [state EXCEPT !.Workloads = callerWorkloads(@, sorted)]
                /\ pc' = "place"
                /\ UNCHANGED result
    /\ UNCHANGED <<buildVars, prepVars, engineVars, genVars, rankVars, scenario, cfgMaxNodes, via, ctxErr, i, nodes,
                   unschedulable, placedOpen>>

\* The context is cancelled while Pack is in its placement loop.
Cancel ==
    /\ pc = "place"
    /\ ~ctxErr
    /\ ctxErr' = TRUE
    /\ UNCHANGED <<buildVars, prepVars, engineVars, genVars, rankVars, state, scenario, cfgMaxNodes, via, input, pc, workloads, i,
                   nodes, unschedulable, placedOpen, result>>

\* The iteration with the node cap tested before the search of the open nodes.
PlaceOneCapFirst(ns, un, w) ==
    LET dsOverhead == daemonSetOverhead(input.DaemonSets)
        bestIdx == BestFitIndex(ns, w)
        tmpl == selectBestTemplate(input.NodeTemplates, w, dsOverhead, input.SystemReserved)
    IN  IF AtNodeCap(input, ns)
        THEN [nodes |-> ns, unschedulable |-> Append(un, w)]
        ELSE IF bestIdx > 0
        THEN [nodes |-> [ns EXCEPT ![bestIdx] = place(@, w)], unschedulable |-> un]
        ELSE IF tmpl = 0
        THEN [nodes |-> ns, unschedulable |-> Append(un, w)]
        ELSE [nodes |-> Append(ns, place(openNode(input.NodeTemplates[tmpl], dsOverhead,
                                                  input.SystemReserved), w)),
              unschedulable |-> un]

\* What one iteration of the placement loop does to nodes and unschedulable.
PlaceOne(ns, un, w) ==
    LET dsOverhead == daemonSetOverhead(input.DaemonSets)
        bestIdx == BestFitIndex(ns, w)
        tmpl == selectBestTemplate(input.NodeTemplates, w, dsOverhead, input.SystemReserved)
    IN  IF bestIdx > 0
        THEN [nodes |-> [ns EXCEPT ![bestIdx] = place(@, w)], unschedulable |-> un]
        ELSE IF AtNodeCap(input, ns)
        THEN [nodes |-> ns, unschedulable |-> Append(un, w)]
        ELSE IF tmpl = 0
        THEN [nodes |-> ns, unschedulable |-> Append(un, w)]
        ELSE [nodes |-> Append(ns, place(openNode(input.NodeTemplates[tmpl], dsOverhead,
                                                  input.SystemReserved), w)),
              unschedulable |-> un]

\* One iteration of the placement loop, cancellation check included.
PlaceStep ==
    /\ pc = "place"
    /\ i <= Len(workloads)
    /\ IF ctxErr
       THEN /\ result' = PackError
            /\ pc' = "error"
            /\ UNCHANGED <<i, nodes, unschedulable>>
       ELSE LET after == PlaceOne(nodes, unschedulable, workloads[i])
            IN  /\ nodes' = after.nodes
                /\ unschedulable' = after.unschedulable
                /\ i' = i + 1
                /\ UNCHANGED <<pc, result>>
    /\ UNCHANGED <<buildVars, prepVars, engineVars, genVars, rankVars, state, scenario, cfgMaxNodes, via, input, ctxErr, workloads, placedOpen>>

\* if input.SpotRatio > 0 { applySpotRatio(nodes, input.SpotRatio) }
SpotAssigned(ns) ==
    IF input.SpotRatio.num > 0 THEN applySpotRatio(ns, input.SpotRatio) ELSE ns

\* After the loop: the spot assignment.
ApplySpot ==
    /\ pc = "place"
    /\ i > Len(workloads)
    /\ placedOpen' = Len(nodes)
    /\ nodes' = SpotAssigned(nodes)
    /\ input' = [input EXCEPT !.NodeTemplates = callerTemplates(@, SpotAssigned(nodes))]
    /\ scenario' = [scenario EXCEPT !.InstanceTypes = callerTemplates(@, SpotAssigned(nodes))]
    /\ pc' = "build"
    /\ UNCHANGED <<buildVars, prepVars, engineVars, genVars, rankVars, state, cfgMaxNodes, via, ctxErr, workloads, i,
                   unschedulable, result>>

\* The result is built from the node states and returned.
BuildResult ==
    /\ pc = "build"
    /\ result' = [Nodes |-> [k \in 1..Len(nodes) |-> Allocation(nodes[k])],
                  UnschedulablePods |-> unschedulable]
    /\ pc' = "done"
    /\ UNCHANGED <<buildVars, prepVars, engineVars, genVars, rankVars, state, scenario, cfgMaxNodes, via, input, ctxErr, workloads, i,
                   nodes, unschedulable, placedOpen>>

Next ==
    \/ PackCall
    \/ runOne
    \/ PackEnter
    \/ Cancel
    \/ PlaceStep
    \/ ApplySpot
    \/ BuildResult

Spec == Init /\ [][Next]_vars

-----------------------------------------------------------------------------
(* Pack with the min_nodes padding.  bfd.go as given has no padding step;   *)
(* PackInput.MinNodes is set by Engine.runOne and by the package's tests.   *)
(* The padding is modelled from the specification's "HA padding"            *)
(* paragraph: after the placement pass and before the spot assignment.      *)

MinNodesValues == {0, 2, 3}

InitMinNodes ==
    /\ state \in [Workloads : WorkloadLists, DaemonSets : DaemonSetLists,
                  SystemReserved : {ResourceQuantity(0, 0)}]
    /\ scenario \in [InstanceTypes : TemplateLists,
                     SpotRatio : {[num |-> 0, den |-> 1], [num |-> 1, den |-> 2]},
                     MinNodes : MinNodesValues]
    /\ cfgMaxNodes \in {0, 1}
    /\ via = "none"
    /\ input = Null
    /\ ctxErr = FALSE
    /\ pc = "call"
    /\ workloads = <<>>
    /\ i = 1
    /\ nodes = <<>>
    /\ unschedulable = <<>>
    /\ placedOpen = 0
    /\ result = Null
    /\ scorer = Null
    /\ results = <<>>
    /\ recs = <<>>
    /\ GenUnused
    /\ EngineUnused
    /\ PrepUnused
    /\ BuildUnused

\* The most expensive template instead of the cheapest.
dearestTemplate(templates) ==
    CHOOSE k \in DOMAIN templates :
        \A j \in DOMAIN templates :
            templates[k].OnDemandPricePerHour >= templates[j].OnDemandPricePerHour

\* The index of the cheapest template, the earliest on equal price.
cheapestTemplate(templates) ==
    CHOOSE k \in DOMAIN templates :
        \A j \in DOMAIN templates :
            \/ templates[k].OnDemandPricePerHour < templates[j].OnDemandPricePerHour
            \/ /\ templates[k].OnDemandPricePerHour = templates[j].OnDemandPricePerHour
               /\ k <= j

\* Empty nodes of the cheapest template are appended until there are minNodes.
padToMinNodes(ns, templates, minNodes, dsOverhead, sysReserved) ==
    IF minNodes > 0 /\ Len(ns) < minNodes
    THEN ns \o [k \in 1..(minNodes - Len(ns)) |->
                   openNode(templates[cheapestTemplate(templates)], dsOverhead, sysReserved)]
    ELSE ns

\* After the loop: the padding.
PadMinNodes ==
    /\ pc = "place"
    /\ i > Len(workloads)
    /\ placedOpen' = Len(nodes)
    /\ nodes' = padToMinNodes(nodes, input.NodeTemplates, input.MinNodes,
                              daemonSetOverhead(input.DaemonSets), input.SystemReserved)
    /\ pc' = "padded"
    /\ UNCHANGED <<buildVars, prepVars, engineVars, genVars, rankVars, state, scenario, cfgMaxNodes, via, input, ctxErr, workloads, i,
                   unschedulable, result>>

\* The spot assignment over the padded node list.
ApplySpotPadded ==
    /\ pc = "padded"
    /\ nodes' = SpotAssigned(nodes)
    /\ input' = [input EXCEPT !.NodeTemplates = callerTemplates(@, SpotAssigned(nodes))]
    /\ scenario' = [scenario EXCEPT !.InstanceTypes = callerTemplates(@, SpotAssigned(nodes))]
    /\ pc' = "build"
    /\ UNCHANGED <<buildVars, prepVars, engineVars, genVars, rankVars, state, cfgMaxNodes, via, ctxErr, workloads, i,
                   unschedulable, placedOpen, result>>

NextMinNodes ==
    \/ PackCall
    \/ runOne
    \/ PackEnter
    \/ Cancel
    \/ PlaceStep
    \/ PadMinNodes
    \/ ApplySpotPadded
    \/ BuildResult

SpecMinNodes == InitMinNodes /\ [][NextMinNodes]_vars

-----------------------------------------------------------------------------
(* internal/simulation/engine.go: Scorer.RankResults and Scorer.score.

   The scores are float64 in the code.  Here a score is an exact fraction
   [n, d] with d > 0; ratios in [0, 1] (utilisation, balance, underutilised
   fraction, trough utilisation, weights) are held as whole percents. *)

Frac(n, d) == [n |-> n, d |-> d]

ScoringWeights(cost, utilization, fragmentation, resilience) ==
    [Cost |-> cost, Utilization |-> utilization,
     Fragmentation |-> fragmentation, Resilience |-> resilience]

\* Weights in percent: the defaults, cost only, utilisation only, resilience
\* only.
WeightValues ==
    {ScoringWeights(40, 30, 15, 15), ScoringWeights(100, 0, 0, 0),
     ScoringWeights(0, 100, 0, 0), ScoringWeights(0, 0, 0, 100)}

DaemonSetCounts == {0, 2}

SimulationResult(cost, totalNodes, cpu, mem, balance, under, unsched, scaling) ==
    [TotalCost |-> cost, TotalNodes |-> totalNodes,
     AvgCPUUtilization |-> cpu, AvgMemUtilization |-> mem,
     Fragmentation |-> [ResourceBalanceScore |-> balance,
                        UnderutilizedNodeFraction |-> under],
     UnschedulablePods |-> unsched, ScalingEfficiency |-> scaling]

ResultShapes ==
    {SimulationResult(10, 1, 50, 50, 80, 0, <<>>, Null),
     SimulationResult(5, 3, 80, 90, 80, 0, <<>>, Null),
     SimulationResult(8, 6, 60, 70, 100, 50, <<Workload(1, 1, 1)>>,
                      [EstTroughCPUUtil |-> 15]),
     SimulationResult(5, 20, 30, 40, 60, 100,
                      <<Workload(1, 1, 1), Workload(2, 1, 1), Workload(3, 1, 1),
                        Workload(4, 1, 1), Workload(5, 1, 1), Workload(6, 1, 1)>>,
                      [EstTroughCPUUtil |-> 0]),
     \* no node at all: buildSimulationResult returns before the averages
     SimulationResult(0, 0, 0, 0, 0, 0, <<Workload(1, 1, 1)>>, Null),
     \* every node full
     SimulationResult(5, 10, 100, 100, 100, 0, <<>>, [EstTroughCPUUtil |-> 100]),
     \* a large fleet that leaves pods out and idles at the trough
     SimulationResult(10, 120, 10, 20, 90, 100,
                      <<Workload(1, 1, 1), Workload(2, 1, 1), Workload(3, 1, 1),
                        Workload(4, 1, 1), Workload(5, 1, 1)>>,
                      [EstTroughCPUUtil |-> 0]),
     \* the node-count bands in between
     SimulationResult(6, 2, 50, 50, 80, 0, <<>>, Null),
     SimulationResult(9, 40, 40, 40, 70, 50, <<>>, [EstTroughCPUUtil |-> 30]),
     SimulationResult(9, 80, 40, 40, 70, 50, <<>>, [EstTroughCPUUtil |-> 45])}

\* Every list of up to MaxResults results; the k-th came from the k-th
\* scenario, which is what tells two otherwise equal results apart.
ResultLists ==
    UNION {{[k \in 1..n |-> [Scenario |-> k, Result |-> f[k]]] :
               f \in [1..n -> ResultShapes]} : n \in 0..MaxResults}

\* The node-count bands of the scorer's earlier version.
ResilienceBaseEarlier(totalNodes) ==
    IF totalNodes <= 1 THEN 20
    ELSE IF totalNodes <= 3 THEN 60
    ELSE IF totalNodes <= 50 THEN 100
    ELSE IF totalNodes <= 200 THEN 80
    ELSE 60

\* The node-count bands of the resilience score.
ResilienceBase(totalNodes) ==
    IF totalNodes <= 1 THEN 20
    ELSE IF totalNodes <= 2 THEN 50
    ELSE IF totalNodes <= 5 THEN 90
    ELSE IF totalNodes <= 15 THEN 100
    ELSE IF totalNodes <= 30 THEN 85
    ELSE IF totalNodes <= 50 THEN 70
    ELSE IF totalNodes <= 100 THEN 55
    ELSE 40

\* The penalties are subtracted without the floor at zero.
ResilienceScoreNoFloor(s, r) ==
    Frac(60 * ResilienceBase(r.TotalNodes)
             - (IF s.DaemonSetCount > 0 /\ r.TotalNodes > 5
                THEN Min2(3 * s.DaemonSetCount * r.TotalNodes, 60 * 20) ELSE 0)
             - (IF Len(r.UnschedulablePods) > 0
                THEN Min2(60 * 10 * Len(r.UnschedulablePods), 60 * 50) ELSE 0)
             - (IF r.ScalingEfficiency # Null /\ r.ScalingEfficiency.EstTroughCPUUtil < 30
                THEN 50 * (30 - r.ScalingEfficiency.EstTroughCPUUtil) ELSE 0),
         60)

\* The resilience score in sixtieths of a point, after the three penalties.
ResilienceScore(s, r) ==
    LET base == 60 * ResilienceBase(r.TotalNodes)
        afterDS ==
            IF s.DaemonSetCount > 0 /\ r.TotalNodes > 5
            THEN Max2(0, base - Min2(3 * s.DaemonSetCount * r.TotalNodes, 60 * 20))
            ELSE base
        afterUnsched ==
            IF Len(r.UnschedulablePods) > 0
            THEN Max2(0, afterDS - Min2(60 * 10 * Len(r.UnschedulablePods), 60 * 50))
            ELSE afterDS
        afterTrough ==
            IF r.ScalingEfficiency # Null /\ r.ScalingEfficiency.EstTroughCPUUtil < 30
            THEN Max2(0, afterUnsched - 50 * (30 - r.ScalingEfficiency.EstTroughCPUUtil))
            ELSE afterUnsched
    IN  Frac(afterTrough, 60)

\* The cost score grows with the cost.
CostScoreInverted(r, minCost, maxCost) ==
    LET costRange == maxCost - minCost
    IN  IF costRange > 0
        THEN Frac(100 * (r.Result.TotalCost - minCost), costRange)
        ELSE Frac(100, 1)

CostScore(r, minCost, maxCost) ==
    LET costRange == maxCost - minCost
    IN  IF costRange > 0
        THEN Frac(100 * (maxCost - r.Result.TotalCost), costRange)
        ELSE Frac(100, 1)

score(s, r, minCost, maxCost) ==
    LET cs == CostScore(r, minCost, maxCost)
        us == Frac(r.Result.AvgCPUUtilization + r.Result.AvgMemUtilization, 2)
        fs == Frac(r.Result.Fragmentation.ResourceBalanceScore
                       * (100 - r.Result.Fragmentation.UnderutilizedNodeFraction), 100)
        rs == ResilienceScore(s, r.Result)
    IN  [SimulationResult |-> r,
         MonthlyCost |-> r.Result.TotalCost,
         CostScore |-> cs,
         UtilizationScore |-> us,
         FragmentationScore |-> fs,
         ResilienceScore |-> rs,
         OverallScore |->
             Frac(s.Weights.Cost * cs.n * 300
                      + cs.d * (s.Weights.Utilization * us.n * 150
                                + s.Weights.Fragmentation * fs.n * 3
                                + s.Weights.Resilience * rs.n * 5),
                  100 * 300 * cs.d),
         Rank |-> 0]

\* The sort orders in the opposite direction.
OverallAscending(a, b) ==
    IF a.OverallScore.d = b.OverallScore.d
    THEN a.OverallScore.n < b.OverallScore.n
    ELSE a.OverallScore.n * b.OverallScore.d < b.OverallScore.n * a.OverallScore.d

\* The less function of the sort: recs[i].OverallScore > recs[j].OverallScore.
OverallDescending(a, b) ==
    IF a.OverallScore.d = b.OverallScore.d
    THEN a.OverallScore.n > b.OverallScore.n
    ELSE a.OverallScore.n * b.OverallScore.d > b.OverallScore.n * a.OverallScore.d

AssignRanks(rs) == [k \in DOMAIN rs |-> [rs[k] EXCEPT !.Rank = k]]

\* The body of RankResults: the recommendations for the results rs.
Ranking(s, rs) ==
    IF Len(rs) = 0
    THEN <<>>
    ELSE LET costs == {rs[k].Result.TotalCost : k \in DOMAIN rs}
             minCost == CHOOSE c \in costs : \A o \in costs : c <= o
             maxCost == SetMax(costs)
             scored == [k \in DOMAIN rs |-> score(s, rs[k], minCost, maxCost)]
         IN  AssignRanks(SliceStable(scored,
                 [a \in DOMAIN scored, b \in DOMAIN scored |->
                      OverallDescending(scored[a], scored[b])]))

InitRank ==
    /\ state = Null
    /\ scenario = Null
    /\ cfgMaxNodes = 0
    /\ via = "none"
    /\ input = Null
    /\ ctxErr = FALSE
    /\ pc = "ranking"
    /\ workloads = <<>>
    /\ i = 1
    /\ nodes = <<>>
    /\ unschedulable = <<>>
    /\ placedOpen = 0
    /\ result = Null
    /\ scorer \in [Weights : WeightValues, DaemonSetCount : DaemonSetCounts]
    /\ results \in ResultLists
    /\ recs = <<>>
    /\ GenUnused
    /\ EngineUnused
    /\ PrepUnused
    /\ BuildUnused

\* RunAll hands the successful results to RankResults with a nil baseline.
RankResults ==
    /\ pc = "ranking"
    /\ pc' = "ranked"
    /\ recs' = Ranking(scorer, results)
    /\ UNCHANGED <<state, scenario, cfgMaxNodes, via, input, ctxErr, workloads, i,
                   nodes, unschedulable, placedOpen, result, scorer, results, genVars,
                   engineVars, buildVars, prepVars>>

NextRank == RankResults

SpecRank == InitRank /\ [][NextRank]_vars

-----------------------------------------------------------------------------
(* internal/simulation/engine.go: GenerateScenarios *)

FleetTemplate(type, family, size) ==
    [InstanceType |-> type, InstanceFamily |-> family, Size |-> size]

\* Instance types as the provider lists them: each type once, two families
\* with two sizes and one family with a single size.
Fleet ==
    {FleetTemplate("m5.large", "m5", "large"), FleetTemplate("m5.xlarge", "m5", "xlarge"),
     FleetTemplate("c5.large", "c5", "large"), FleetTemplate("c5.xlarge", "c5", "xlarge"),
     FleetTemplate("r5.large", "r5", "large")}

FleetLists == DistinctSeqUpTo(Fleet, MaxFleet)

Strategies == {"homogeneous", "mixed", "both"}

Scenario(name, types, strategy, spotRatio, minNodes) ==
    [Name |-> name, InstanceTypes |-> types, Strategy |-> strategy,
     SpotRatio |-> spotRatio, MinNodes |-> minNodes]

\* The map built by "Group by family": the templates of one family, in the
\* order of the input.
FamilyTypes(templates, fam) ==
    SelectSeq(templates, LAMBDA t : t.InstanceFamily = fam)

\* A mixed scenario is emitted for any family with at least one template.
FamilySkippedNever(types) == Len(types) < 1

\* "if len(types) < 2 { continue }"
FamilySkipped(types) == Len(types) < 2

\* The keys of the families map that get a scenario.
MixedFamilies(templates) ==
    {fam \in {templates[k].InstanceFamily : k \in DOMAIN templates} :
        ~FamilySkipped(FamilyTypes(templates, fam))}

\* The orders in which a range over a map can visit the keys in S.
MapOrders(S) ==
    {o \in [1..Cardinality(S) -> S] : \A a, b \in DOMAIN o : a # b => o[a] # o[b]}

HomogeneousScenarios(templates, spotRatio, minNodes) ==
    [k \in DOMAIN templates |->
        Scenario(<<"homogeneous", templates[k].InstanceType>>, <<templates[k]>>,
                 "homogeneous", spotRatio, minNodes)]

MixedScenarios(templates, order, spotRatio, minNodes) ==
    [k \in DOMAIN order |->
        Scenario(<<"mixed", order[k]>>, FamilyTypes(templates, order[k]),
                 "mixed", spotRatio, minNodes)]

InitScenarios ==
    /\ PackUnused
    /\ pc = "generate"
    /\ RankUnused
    /\ genTemplates \in FleetLists
    /\ genStrategy \in Strategies
    /\ genSpotRatio \in {[num |-> 0, den |-> 1], [num |-> 3, den |-> 10]}
    /\ genMinNodes \in {0, 3}
    /\ generated = <<>>
    /\ EngineUnused
    /\ PrepUnused
    /\ BuildUnused

\* One call of GenerateScenarios; the program makes one per run, and a second
\* run on the same input makes a second.
GenerateScenarios ==
    /\ pc = "generate"
    /\ Len(generated) < 2
    /\ \E order \in MapOrders(MixedFamilies(genTemplates)) :
           LET homogeneous ==
                   IF genStrategy \in {"homogeneous", "both"}
                   THEN HomogeneousScenarios(genTemplates, genSpotRatio, genMinNodes)
                   ELSE <<>>
               mixed ==
                   IF genStrategy \in {"mixed", "both"}
                   THEN MixedScenarios(genTemplates, order, genSpotRatio, genMinNodes)
                   ELSE <<>>
           IN  generated' = Append(generated, homogeneous \o mixed)
    /\ UNCHANGED <<packVars, rankVars, engineVars, buildVars, prepVars, genTemplates, genStrategy,
                   genSpotRatio, genMinNodes>>

NextScenarios == GenerateScenarios

SpecScenarios == InitScenarios /\ [][NextScenarios]_vars

-----------------------------------------------------------------------------
(* internal/simulation/engine.go: Engine.RunAll.

   The goroutine running RunAll and one worker goroutine per scenario take
   steps in any order.  A worker's call of runOne is followed through the
   context checks of the packer's placement loop; what the packing returns
   for a scenario is an input. *)

NoErr == <<"nil">>

ErrCanceled == <<"context canceled">>

ErrNoScenarios == <<"no simulation scenarios provided">>

ErrAllFailed == <<"all simulation scenarios failed">>

\* runOne's wrapping of the packer's error.
ErrPacking(err) == <<"packing scenario">> \o err

\* model.SimulationResult{}
ZeroResult == [Scenario |-> 0, Result |-> Null]

\* What runOne returns for the scenario at position k when the packing
\* succeeds.
RunOneResult(k) ==
    [Scenario |-> k,
     Result |-> IF k % 2 = 1
                THEN SimulationResult(5, 3, 80, 90, 80, 0, <<>>, Null)
                ELSE SimulationResult(8, 6, 60, 70, 100, 50, <<>>, Null)]

PackStepCounts == {0, 1, 2}

Parallelisms == {1, 2}

Worker(pos, idx, left, res, err) ==
    [pc |-> pos, idx |-> idx, left |-> left, result |-> res, err |-> err]

\* The slot is taken from the loop variable of RunAll, not from the argument.
SlotOfLoopVariable(w, ws, loopIndex) == loopIndex

\* The index a worker stores under: the idx argument of its goroutine.
SlotOf(w, ws, loopIndex) == ws[w].idx

\* A failed scenario never ends the collection.
AbortsOnCancelNever(err, ctxDone) == FALSE

\* "if err != nil { if ctx.Err() != nil { return nil, ctx.Err() } ... }"
AbortsOnCancel(err, ctxDone) == err # NoErr /\ ctxDone

\* Every slot is skipped.
SkippedAlways(err) == TRUE

\* "if err != nil { ...; continue }"
Skipped(err) == err # NoErr

\* The workers that will still evaluate ctx.Err() inside Pack.
CheckAhead(ws) == {w \in DOMAIN ws : ws[w].pc \in {"unborn", "acquire", "pack"} /\ ws[w].left > 0}

InitEngine ==
    /\ PackUnused
    /\ pc = "engine"
    /\ scorer = [Weights |-> ScoringWeights(40, 30, 15, 15), DaemonSetCount |-> 0]
    /\ results = <<>>
    /\ recs = <<>>
    /\ GenUnused
    /\ runScenarios \in 0..MaxScenarios
    /\ packSteps \in PackStepCounts
    /\ packFails \in [1..runScenarios -> BOOLEAN]
    /\ parallelism \in Parallelisms
    /\ enginePc = "call"
    /\ loopI = 1
    /\ wg = 0
    /\ sem = 0
    /\ workers = [k \in 1..runScenarios |-> Worker("unborn", k, packSteps, ZeroResult, NoErr)]
    /\ slotResults = <<>>
    /\ slotErrs = <<>>
    /\ slotWriters = [k \in 1..runScenarios |-> {}]
    /\ mustCancel = {}
    /\ successful = <<>>
    /\ runRecs = <<>>
    /\ runErr = <<"none">>
    /\ PrepUnused
    /\ BuildUnused

\* The caller's context is cancelled, at any moment up to RunAll's return.
CancelRun ==
    /\ pc = "engine"
    /\ enginePc # "returned"
    /\ ~ctxErr
    /\ ctxErr' = TRUE
    /\ mustCancel' = CheckAhead(workers)
    /\ UNCHANGED <<state, scenario, cfgMaxNodes, via, input, pc, workloads, i, nodes,
                   unschedulable, placedOpen, result, rankVars, genVars, buildVars, prepVars, runScenarios,
                   packSteps, packFails, parallelism, enginePc, loopI, wg, sem, workers,
                   slotResults, slotErrs, slotWriters, successful, runRecs, runErr>>

\* Entry of RunAll: the empty-list return, or the two slices are made.
RunAllEnter ==
    /\ enginePc = "call"
    /\ IF runScenarios = 0
       THEN /\ runErr' = ErrNoScenarios
            /\ enginePc' = "returned"
            /\ UNCHANGED <<slotResults, slotErrs>>
       ELSE /\ slotResults' = [k \in 1..runScenarios |-> ZeroResult]
            /\ slotErrs' = [k \in 1..runScenarios |-> NoErr]
            /\ enginePc' = "spawn"
            /\ UNCHANGED runErr
    /\ UNCHANGED <<packVars, rankVars, genVars, buildVars, prepVars, runScenarios, packSteps, packFails,
                   parallelism, loopI, wg, sem, workers, slotWriters, mustCancel,
                   successful, runRecs>>

\* One iteration of the spawning loop: wg.Add(1) and go func(i, sc).
SpawnWorker ==
    /\ enginePc = "spawn"
    /\ wg' = wg + 1
    /\ workers' = [workers EXCEPT ![loopI].pc = "acquire"]
    /\ loopI' = loopI + 1
    /\ enginePc' = IF loopI = runScenarios THEN "wait" ELSE "spawn"
    /\ UNCHANGED <<packVars, rankVars, genVars, buildVars, prepVars, runScenarios, packSteps, packFails,
                   parallelism, sem, slotResults, slotErrs, slotWriters, mustCancel,
                   successful, runRecs, runErr>>

\* "sem <- struct{}{}"
AcquireSlot(w) ==
    /\ workers[w].pc = "acquire"
    /\ sem < parallelism
    /\ sem' = sem + 1
    /\ workers' = [workers EXCEPT ![w].pc = "pack"]
    /\ UNCHANGED <<packVars, rankVars, genVars, buildVars, prepVars, runScenarios, packSteps, packFails,
                   parallelism, enginePc, loopI, wg, slotResults, slotErrs, slotWriters,
                   mustCancel, successful, runRecs, runErr>>

\* One iteration of the packer's placement loop: the context check, then the
\* placement of one workload.
PackIterate(w) ==
    /\ workers[w].pc = "pack"
    /\ workers[w].left > 0
    /\ workers' =
           IF ctxErr
           THEN [workers EXCEPT ![w].pc = "storeResult",
                                ![w].err = ErrPacking(ErrCanceled)]
           ELSE [workers EXCEPT ![w].left = @ - 1]
    /\ UNCHANGED <<packVars, rankVars, genVars, buildVars, prepVars, runScenarios, packSteps, packFails,
                   parallelism, enginePc, loopI, wg, sem, slotResults, slotErrs,
                   slotWriters, mustCancel, successful, runRecs, runErr>>

\* The packing returns and runOne with it.
PackReturn(w) ==
    /\ workers[w].pc = "pack"
    /\ workers[w].left = 0
    /\ workers' =
           IF packFails[workers[w].idx]
           THEN [workers EXCEPT ![w].pc = "storeResult",
                                ![w].err = ErrPacking(<<"packer error">>)]
           ELSE [workers EXCEPT ![w].pc = "storeResult",
                                ![w].result = RunOneResult(workers[w].idx)]
    /\ UNCHANGED <<packVars, rankVars, genVars, buildVars, prepVars, runScenarios, packSteps, packFails,
                   parallelism, enginePc, loopI, wg, sem, slotResults, slotErrs,
                   slotWriters, mustCancel, successful, runRecs, runErr>>

\* "results[idx] = result"
StoreResult(w) ==
    /\ workers[w].pc = "storeResult"
    /\ LET slot == SlotOf(w, workers, loopI)
       IN  /\ slotResults' = IF slot \in DOMAIN slotResults
                             THEN [slotResults EXCEPT ![slot] = workers[w].result]
                             ELSE slotResults
           /\ slotWriters' = IF slot \in DOMAIN slotWriters
                             THEN [slotWriters EXCEPT ![slot] = @ \cup {w}]
                             ELSE slotWriters
    /\ workers' = [workers EXCEPT ![w].pc = "storeErr"]
    /\ UNCHANGED <<packVars, rankVars, genVars, buildVars, prepVars, runScenarios, packSteps, packFails,
                   parallelism, enginePc, loopI, wg, sem, slotErrs, mustCancel,
                   successful, runRecs, runErr>>

\* "errs[idx] = err"
StoreErr(w) ==
    /\ workers[w].pc = "storeErr"
    /\ LET slot == SlotOf(w, workers, loopI)
       IN  /\ slotErrs' = IF slot \in DOMAIN slotErrs
                          THEN [slotErrs EXCEPT ![slot] = workers[w].err]
                          ELSE slotErrs
           /\ slotWriters' = IF slot \in DOMAIN slotWriters
                             THEN [slotWriters EXCEPT ![slot] = @ \cup {w}]
                             ELSE slotWriters
    /\ workers' = [workers EXCEPT ![w].pc = "release"]
    /\ UNCHANGED <<packVars, rankVars, genVars, buildVars, prepVars, runScenarios, packSteps, packFails,
                   parallelism, enginePc, loopI, wg, sem, slotResults, mustCancel,
                   successful, runRecs, runErr>>

\* The deferred "<-sem".
ReleaseSlot(w) ==
    /\ workers[w].pc = "release"
    /\ sem' = sem - 1
    /\ workers' = [workers EXCEPT ![w].pc = "done"]
    /\ UNCHANGED <<packVars, rankVars, genVars, buildVars, prepVars, runScenarios, packSteps, packFails,
                   parallelism, enginePc, loopI, wg, slotResults, slotErrs, slotWriters,
                   mustCancel, successful, runRecs, runErr>>

\* The deferred wg.Done().
WorkerDone(w) ==
    /\ workers[w].pc = "done"
    /\ wg' = wg - 1
    /\ workers' = [workers EXCEPT ![w].pc = "exited"]
    /\ UNCHANGED <<packVars, rankVars, genVars, buildVars, prepVars, runScenarios, packSteps, packFails,
                   parallelism, enginePc, loopI, sem, slotResults, slotErrs, slotWriters,
                   mustCancel, successful, runRecs, runErr>>

\* wg.Wait() returns.
WaitReturns ==
    /\ enginePc = "wait"
    /\ wg = 0
    /\ enginePc' = "collect"
    /\ loopI' = 1
    /\ UNCHANGED <<packVars, rankVars, genVars, buildVars, prepVars, runScenarios, packSteps, packFails,
                   parallelism, wg, sem, workers, slotResults, slotErrs, slotWriters,
                   mustCancel, successful, runRecs, runErr>>

\* One iteration of the collecting loop.
CollectOne ==
    /\ enginePc = "collect"
    /\ loopI <= runScenarios
    /\ IF AbortsOnCancel(slotErrs[loopI], ctxErr)
       THEN /\ runErr' = ErrCanceled
            /\ enginePc' = "returned"
            /\ UNCHANGED <<loopI, successful>>
       ELSE /\ successful' = IF Skipped(slotErrs[loopI])
                             THEN successful
                             ELSE Append(successful, slotResults[loopI])
            /\ loopI' = loopI + 1
            /\ UNCHANGED <<runErr, enginePc>>
    /\ UNCHANGED <<packVars, rankVars, genVars, buildVars, prepVars, runScenarios, packSteps, packFails,
                   parallelism, wg, sem, workers, slotResults, slotErrs, slotWriters,
                   mustCancel, runRecs>>

\* After the collecting loop: the all-failed return, or score and rank.
RunAllReturn ==
    /\ enginePc = "collect"
    /\ loopI > runScenarios
    /\ IF Len(successful) = 0
       THEN /\ runErr' = ErrAllFailed
            /\ UNCHANGED runRecs
       ELSE /\ runRecs' = Ranking(scorer, successful)
            /\ runErr' = NoErr
    /\ enginePc' = "returned"
    /\ UNCHANGED <<packVars, rankVars, genVars, buildVars, prepVars, runScenarios, packSteps, packFails,
                   parallelism, loopI, wg, sem, workers, slotResults, slotErrs,
                   slotWriters, mustCancel, successful>>

NextEngine ==
    \/ CancelRun
    \/ RunAllEnter
    \/ SpawnWorker
    \/ \E w \in DOMAIN workers :
           \/ AcquireSlot(w)
           \/ PackIterate(w)
           \/ PackReturn(w)
           \/ StoreResult(w)
           \/ StoreErr(w)
           \/ ReleaseSlot(w)
           \/ WorkerDone(w)
    \/ WaitReturns
    \/ CollectOne
    \/ RunAllReturn

SpecEngine == InitEngine /\ [][NextEngine]_vars

\* The values of the exported field Engine.Parallelism that make(chan
\* struct{}, e.Parallelism) accepts: 0, which NewEngine never sets but the
\* zero value Engine{} has, gives an unbuffered channel.
ParallelismSettings == {0} \cup Parallelisms

\* RunAll on an Engine of any such Parallelism.
InitEngineAny ==
    /\ PackUnused
    /\ pc = "engine"
    /\ scorer = [Weights |-> ScoringWeights(40, 30, 15, 15), DaemonSetCount |-> 0]
    /\ results = <<>>
    /\ recs = <<>>
    /\ GenUnused
    /\ runScenarios \in 0..MaxScenarios
    /\ packSteps \in PackStepCounts
    /\ packFails \in [1..runScenarios -> BOOLEAN]
    /\ parallelism \in ParallelismSettings
    /\ enginePc = "call"
    /\ loopI = 1
    /\ wg = 0
    /\ sem = 0
    /\ workers = [k \in 1..runScenarios |-> Worker("unborn", k, packSteps, ZeroResult, NoErr)]
    /\ slotResults = <<>>
    /\ slotErrs = <<>>
    /\ slotWriters = [k \in 1..runScenarios |-> {}]
    /\ mustCancel = {}
    /\ successful = <<>>
    /\ runRecs = <<>>
    /\ runErr = <<"none">>
    /\ PrepUnused
    /\ BuildUnused

\* A step of RunAll's goroutine or of a worker goroutine.
GoroutineStep ==
    \/ RunAllEnter
    \/ SpawnWorker
    \/ \E w \in DOMAIN workers :
           \/ AcquireSlot(w)
           \/ PackIterate(w)
           \/ PackReturn(w)
           \/ StoreResult(w)
           \/ StoreErr(w)
           \/ ReleaseSlot(w)
           \/ WorkerDone(w)
    \/ WaitReturns
    \/ CollectOne
    \/ RunAllReturn

\* The Go scheduler runs a goroutine that can take a step; whether and when
\* the caller cancels is left open.
SpecEngineFair == InitEngineAny /\ [][NextEngine]_vars /\ WF_vars(GoroutineStep)

-----------------------------------------------------------------------------
(* internal/model/cluster.go: ClusterState.ClassifyWorkloads.

   CPU is in millicores (workloads) or whole cores (aggregate), memory in
   units of half a GiB; the ratio is an exact fraction. *)

WorkloadClassCompute == "compute-optimized"

WorkloadClassGeneral == "general-purpose"

WorkloadClassMemory == "memory-optimized"

\* Memory units in one GiB: the divisor 1024 * 1024 * 1024 in these units.
UnitsPerGiB == 2

MillisPerCore == 1000

\* Effective demands of classified workloads: (millicores, memory units).
ClassifyShapes == {<<500, 3>>, <<1000, 5>>, <<1000, 6>>, <<1000, 12>>, <<1000, 13>>}

ClassifyWorkloadLists ==
    {[k \in DOMAIN s |-> Workload(k, s[k][1], s[k][2])] :
        s \in SeqUpTo(ClassifyShapes, MaxWorkloads - 1)}

\* The optional aggregate metrics: absent, or P95 cores and P95 memory.
AggregateValues ==
    {Null} \cup [P95CPUCores : {0, 1, 2}, P95MemoryBytes : {0, 5, 6, 12, 13}]

TotalEffectiveCPU(cs) ==
    SumOver([k \in DOMAIN cs.Workloads |-> cs.Workloads[k].EffectiveCPUMillis],
            DOMAIN cs.Workloads)

TotalEffectiveMemory(cs) ==
    SumOver([k \in DOMAIN cs.Workloads |-> cs.Workloads[k].EffectiveMemoryBytes],
            DOMAIN cs.Workloads)

\* The quotient of two fractions; the divisor is not zero.
FracDiv(a, b) == Frac(a.n * b.d, a.d * b.n)

\* The buckets with both bounds on the wrong side: 3 is compute, 6 is memory.
ClassOfRatioClosed(ratio) ==
    IF ratio.n <= 3 * ratio.d THEN WorkloadClassCompute
    ELSE IF ratio.n >= 6 * ratio.d THEN WorkloadClassMemory
    ELSE WorkloadClassGeneral

\* The switch on the ratio.
ClassOfRatio(ratio) ==
    IF ratio.n < 3 * ratio.d THEN WorkloadClassCompute
    ELSE IF ratio.n > 6 * ratio.d THEN WorkloadClassMemory
    ELSE WorkloadClassGeneral

\* The aggregate is taken whenever it is there.
UsesAggregateIfPresent(cs) == cs.AggregateMetrics # Null

\* The condition under which the aggregate P95 values are taken.
UsesAggregate(cs) ==
    /\ cs.AggregateMetrics # Null
    /\ cs.AggregateMetrics.P95CPUCores > 0
    /\ cs.AggregateMetrics.P95MemoryBytes > 0

ClassifyWorkloads(cs) ==
    LET default == [class |-> WorkloadClassGeneral, ratio |-> Frac(4, 1)]
        vcpus == IF UsesAggregate(cs)
                 THEN Frac(cs.AggregateMetrics.P95CPUCores, 1)
                 ELSE Frac(TotalEffectiveCPU(cs), MillisPerCore)
        gib == IF UsesAggregate(cs)
               THEN Frac(cs.AggregateMetrics.P95MemoryBytes, UnitsPerGiB)
               ELSE Frac(TotalEffectiveMemory(cs), UnitsPerGiB)
    IN  IF ~UsesAggregate(cs) /\ TotalEffectiveCPU(cs) = 0 THEN default
        ELSE IF vcpus.n = 0 THEN default
        ELSE LET ratio == FracDiv(gib, vcpus)
             IN  [class |-> ClassOfRatio(ratio), ratio |-> ratio]

InitClassify ==
    /\ state \in [Workloads : ClassifyWorkloadLists, AggregateMetrics : AggregateValues]
    /\ scenario = Null
    /\ cfgMaxNodes = 0
    /\ via = "none"
    /\ input = Null
    /\ ctxErr = FALSE
    /\ pc = "classify"
    /\ workloads = <<>>
    /\ i = 1
    /\ nodes = <<>>
    /\ unschedulable = <<>>
    /\ placedOpen = 0
    /\ result = Null
    /\ RankUnused
    /\ GenUnused
    /\ EngineUnused
    /\ PrepUnused
    /\ BuildUnused

ClassifyCall ==
    /\ pc = "classify"
    /\ pc' = "classified"
    /\ classified' = ClassifyWorkloads(state)
    /\ UNCHANGED <<state, scenario, cfgMaxNodes, via, input, ctxErr, workloads, i, nodes,
                   unschedulable, placedOpen, result, rankVars, genVars, engineVars,
                   sample, percentile, profile, cfg, validateErr, buildVars>>

NextClassify == ClassifyCall

SpecClassify == InitClassify /\ [][NextClassify]_vars

-----------------------------------------------------------------------------
(* internal/metrics/prometheus.go: the sizing of one pod in
   buildClusterState.

   The query values are float64: CPU in cores, memory in bytes.  Here a CPU
   value is a whole number of half millicores and a memory value a whole
   number of half MiB, so that the conversions to int64 have something to
   cut off; the profile's own fields are in millicores and MiB. *)

\* "10m CPU"
MinEffectiveCPUMillis == 10

\* "64MiB memory", in MiB
MinEffectiveMemory == 64

PercentileValues(p50, p95, p99) == [P50 |-> p50, P95 |-> p95, P99 |-> p99, Max |-> p99]

\* pct is in percent.
AtPercentile(p, pct) ==
    IF pct <= 50 THEN p.P50
    ELSE IF pct <= 95 THEN p.P95
    ELSE IF pct <= 99 THEN p.P99
    ELSE p.Max

\* int64(x) of a non-negative float64 given in halves.
TruncateHalves(x) == x \div 2

CPUUsageValues ==
    {PercentileValues(0, 0, 0), PercentileValues(0, 0, 30),
     PercentileValues(10, 21, 30), PercentileValues(50, 50, 50)}

MemoryUsageValues ==
    {PercentileValues(0, 0, 0), PercentileValues(100, 129, 300),
     PercentileValues(200, 257, 257)}

Samples ==
    [cpuReq : {0, 11, 40}, memReq : {0, 64, 257},
     cpuUsage : CPUUsageValues, memUsage : MemoryUsageValues]

\* opts.Percentile in percent; 0 is the option left unset.
Percentiles == {0, 50, 95, 99, 100}

\* The value is left below the minimum.
RaisedToMinimumNot(v, minimum) == v

\* "if v < minimum { v = minimum }"
RaisedToMinimum(v, minimum) == IF v < minimum THEN minimum ELSE v

\* The profile built for one pod from its query values.
buildWorkloadProfile(smp, pct) ==
    LET requested == ResourceQuantity(TruncateHalves(smp.cpuReq), TruncateHalves(smp.memReq))
        cpuAtPct == AtPercentile(smp.cpuUsage, pct)
        memAtPct == AtPercentile(smp.memUsage, pct)
        noMetrics == smp.cpuUsage.P95 = 0 /\ smp.memUsage.P95 = 0
        effCPU == IF noMetrics THEN requested.CPUMillis
                  ELSE TruncateHalves(Max2(2 * requested.CPUMillis, cpuAtPct))
        effMem == IF noMetrics THEN requested.MemoryBytes
                  ELSE TruncateHalves(Max2(2 * requested.MemoryBytes, memAtPct))
    IN  [CPUUsage |-> smp.cpuUsage,
         MemoryUsage |-> smp.memUsage,
         Requested |-> requested,
         NoMetrics |-> noMetrics,
         EffectiveCPUMillis |-> RaisedToMinimum(effCPU, MinEffectiveCPUMillis),
         EffectiveMemoryBytes |-> RaisedToMinimum(effMem, MinEffectiveMemory)]

InitSizing ==
    /\ PackUnused
    /\ pc = "size"
    /\ RankUnused
    /\ GenUnused
    /\ EngineUnused
    /\ classified = Null
    /\ sample \in Samples
    /\ percentile \in Percentiles
    /\ profile = Null
    /\ cfg = Null
    /\ validateErr = <<"none">>
    /\ BuildUnused

\* Collect's local pct: opts.Percentile, 0.95 when that is 0.
CollectPct(optsPercentile) == IF optsPercentile = 0 THEN 95 ELSE optsPercentile

\* Collect for one pod: pct is computed, the queries are run, and
\* buildClusterState is handed opts, whose Percentile it reads in the loop
\* over the pods; pct is passed nowhere.
BuildProfile ==
    /\ pc = "size"
    /\ pc' = "sized"
    /\ LET pct == CollectPct(percentile)
       IN  profile' = buildWorkloadProfile(sample, percentile)
    /\ UNCHANGED <<state, scenario, cfgMaxNodes, via, input, ctxErr, workloads, i, nodes,
                   unschedulable, placedOpen, result, rankVars, genVars, engineVars,
                   classified, sample, percentile, cfg, validateErr, buildVars>>

NextSizing == BuildProfile

SpecSizing == InitSizing /\ [][NextSizing]_vars

-----------------------------------------------------------------------------
(* internal/config/config.go: Config.Validate.

   Ratios (percentile, spot ratio, weights) are in percent. *)

ErrConfig(field) == <<"invalid config", field>>

DefaultTopN == 5

Configs ==
    [Metrics : [Percentile : {-1, 95, 101}, Window : {0, 1}],
     Simulation : [Strategy : {"both", "spot"}, SpotRatio : {-10, 30, 110},
                   MinNodes : {-1, 3}],
     Scoring : [Weights : {ScoringWeights(40, 30, 15, 15), ScoringWeights(-10, 50, 30, 30),
                           ScoringWeights(50, 50, 50, 50)}],
     Output : [Format : {"table", "xml"}, TopN : {0, 5}]]

ValidStrategies == {"homogeneous", "mixed", "both"}

ValidFormats == {"table", "json", "markdown", "csv"}

\* The error Validate returns for c.
ValidateError(c) ==
    IF c.Metrics.Percentile < 0 \/ c.Metrics.Percentile > 100 THEN ErrConfig("percentile")
    ELSE IF c.Metrics.Window <= 0 THEN ErrConfig("window")
    ELSE IF c.Simulation.SpotRatio < 0 \/ c.Simulation.SpotRatio > 100
         THEN ErrConfig("spot_ratio")
    ELSE IF c.Simulation.MinNodes < 0 THEN ErrConfig("min_nodes")
    ELSE IF c.Simulation.Strategy \notin ValidStrategies THEN ErrConfig("strategy")
    ELSE IF c.Output.Format \notin ValidFormats THEN ErrConfig("format")
    ELSE NoErr

InitValidate ==
    /\ PackUnused
    /\ pc = "validate"
    /\ RankUnused
    /\ GenUnused
    /\ EngineUnused
    /\ classified = Null
    /\ sample = Null
    /\ percentile = 0
    /\ profile = Null
    /\ cfg \in Configs
    /\ validateErr = <<"none">>
    /\ BuildUnused

\* Validate: the first failed check is returned; a config that passes them
\* all has a top_n of zero or less replaced by 5.
Validate ==
    /\ pc = "validate"
    /\ pc' = "validated"
    /\ validateErr' = ValidateError(cfg)
    /\ cfg' = IF ValidateError(cfg) = NoErr /\ cfg.Output.TopN <= 0
              THEN [cfg EXCEPT !.Output.TopN = DefaultTopN]
              ELSE cfg
    /\ UNCHANGED <<state, scenario, cfgMaxNodes, via, input, ctxErr, workloads, i, nodes,
                   unschedulable, placedOpen, result, rankVars, genVars, engineVars,
                   classified, sample, percentile, profile, buildVars>>

NextValidate == Validate

SpecValidate == InitValidate /\ [][NextValidate]_vars

-----------------------------------------------------------------------------
(* Pack on workloads of one more shape, without daemonsets, system_reserved
   or spot: runs in which two open nodes with different remaining capacity
   both fit a later workload. *)

BestFitShapes == WorkloadShapes \cup {<<2, 2>>}

BestFitWorkloadLists ==
    {[k \in DOMAIN s |-> Workload(k, s[k][1], s[k][2])] :
        s \in SeqUpTo(BestFitShapes, MaxWorkloads)}

InitBestFit ==
    /\ state \in [Workloads : BestFitWorkloadLists, DaemonSets : {<<>>},
                  SystemReserved : {ResourceQuantity(0, 0)}]
    /\ scenario \in [InstanceTypes : TemplateLists, SpotRatio : {[num |-> 0, den |-> 1]},
                     MinNodes : {0}]
    /\ cfgMaxNodes \in MaxNodesValues
    /\ via = "none"
    /\ input = Null
    /\ ctxErr = FALSE
    /\ pc = "call"
    /\ workloads = <<>>
    /\ i = 1
    /\ nodes = <<>>
    /\ unschedulable = <<>>
    /\ placedOpen = 0
    /\ result = Null
    /\ RankUnused
    /\ GenUnused
    /\ EngineUnused
    /\ PrepUnused
    /\ BuildUnused

SpecBestFit == InitBestFit /\ [][Next]_vars

-----------------------------------------------------------------------------
(* internal/simulation/fragmentation.go and buildSimulationResult of
   internal/simulation/engine.go.  float64 values are kept as exact fractions
   n/d in lowest terms. *)

MaxAllocations == 3

RECURSIVE GCD(_, _)
GCD(a, b) == IF b = 0 THEN a ELSE GCD(b, a % b)

\* The fraction n/d (d > 0, n >= 0) in lowest terms.
Lowest(n, d) == LET g == GCD(n, d) IN Frac(n \div g, d \div g)

FracSum(a, b) == Lowest(a.n * b.d + b.n * a.d, a.d * b.d)

\* |a - b|
FracAbsDiff(a, b) ==
    IF a.n * b.d >= b.n * a.d
    THEN Lowest(a.n * b.d - b.n * a.d, a.d * b.d)
    ELSE Lowest(b.n * a.d - a.n * b.d, a.d * b.d)

\* 1.0 - a, for a in [0,1].
FracComplement(a) == Lowest(a.d - a.n, a.d)

FracLess(a, b) == a.n * b.d < b.n * a.d

\* a / k for an integer k > 0.
FracOver(a, k) == Lowest(a.n, a.d * k)

HighUtilThreshold == Frac(85, 100)

LowUtilThreshold == Frac(50, 100)

\* The loop of AnalyzeFragmentation over nodes 1..k.
RECURSIVE FragmentationScan(_, _)
FragmentationScan(ns, k) ==
    IF k = 0
    THEN [StrandedCPUMillis |-> 0, StrandedMemoryBytes |-> 0, underutilized |-> 0,
          ResourceBalanceScore |-> Frac(0, 1)]
    ELSE LET prev == FragmentationScan(ns, k - 1)
             n == ns[k]
             allocCPU == n.Template.AllocatableCPUMillis
             allocMem == n.Template.AllocatableMemoryBytes
         IN  IF allocCPU = 0 \/ allocMem = 0 THEN prev
             ELSE LET cpuUtil == Lowest(n.UsedCPU, allocCPU)
                      memUtil == Lowest(n.UsedMem, allocMem)
                  IN  [StrandedCPUMillis |->
                           IF FracLess(HighUtilThreshold, memUtil) /\ FracLess(cpuUtil, LowUtilThreshold)
                           THEN prev.StrandedCPUMillis + (allocCPU - n.UsedCPU)
                           ELSE prev.StrandedCPUMillis,
                       StrandedMemoryBytes |->
                           IF FracLess(HighUtilThreshold, cpuUtil) /\ FracLess(memUtil, LowUtilThreshold)
                           THEN prev.StrandedMemoryBytes + (allocMem - n.UsedMem)
                           ELSE prev.StrandedMemoryBytes,
                       underutilized |->
                           IF FracLess(cpuUtil, LowUtilThreshold) \/ FracLess(memUtil, LowUtilThreshold)
                           THEN prev.underutilized + 1
                           ELSE prev.underutilized,
                       ResourceBalanceScore |->
                           FracSum(prev.ResourceBalanceScore,
                                   FracComplement(FracAbsDiff(cpuUtil, memUtil)))]

\* The zero value of model.FragmentationReport.
ZeroFragmentationReport ==
    [StrandedCPUMillis |-> 0, StrandedMemoryBytes |-> 0,
     UnderutilizedNodeFraction |-> Frac(0, 1), ResourceBalanceScore |-> Frac(0, 1)]

AnalyzeFragmentation(ns) ==
    IF Len(ns) = 0
    THEN [ZeroFragmentationReport EXCEPT !.ResourceBalanceScore = Frac(1, 1)]
    ELSE LET acc == FragmentationScan(ns, Len(ns))
         IN  [StrandedCPUMillis |-> acc.StrandedCPUMillis,
              StrandedMemoryBytes |-> acc.StrandedMemoryBytes,
              UnderutilizedNodeFraction |-> Lowest(acc.underutilized, Len(ns)),
              ResourceBalanceScore |-> FracOver(acc.ResourceBalanceScore, Len(ns))]

\* ClusterAggregateMetrics.ScalingRatio, for a non-nil receiver.
ScalingRatio(cam) ==
    IF cam.MaxNodeCount = 0 THEN Frac(1, 1) ELSE Lowest(cam.MinNodeCount, cam.MaxNodeCount)

\* math.Ceil of the non-negative fraction n/d, as an int.
CeilFrac(f) == (f.n + f.d - 1) \div f.d

HoursPerMonth == 730

\* NodeTemplate.MonthlyCost of a template without a spot price.
MonthlyCost(t) == t.OnDemandPricePerHour * HoursPerMonth

\* The sum of f[k] over 1..k.
RECURSIVE FracTotal(_, _)
FracTotal(f, k) == IF k = 0 THEN Frac(0, 1) ELSE FracSum(FracTotal(f, k - 1), f[k])

\* The scaling-efficiency block; P95CPUCores is in thousandths of a core.
EstimateScalingEfficiency(pr, scn, agg) ==
    LET ratio == ScalingRatio(agg)
        ceiled == CeilFrac(Frac(Len(pr.Nodes) * ratio.n, ratio.d))
        troughNodes == IF scn.MinNodes > 0 /\ ceiled < scn.MinNodes THEN scn.MinNodes ELSE ceiled
        allocPerNode == pr.Nodes[1].Template.AllocatableCPUMillis
        raw == Lowest(agg.P95CPUCores * ratio.n, ratio.d * troughNodes * allocPerNode)
        troughCPUUtil ==
            IF troughNodes > 0 /\ allocPerNode > 0
            THEN IF FracLess(Frac(1, 1), raw) THEN Frac(1, 1) ELSE raw
            ELSE Frac(0, 1)
    IN  [ScalingRatio     |-> ratio,
         ObservedMinNodes |-> agg.MinNodeCount,
         ObservedMaxNodes |-> agg.MaxNodeCount,
         EstTroughNodes   |-> troughNodes,
         EstTroughCPUUtil |-> troughCPUUtil]

buildSimulationResult(pr, scn, agg) ==
    LET sr == [InstanceConfig |-> [InstanceTypes |-> scn.InstanceTypes,
                                   SpotRatio |-> scn.SpotRatio],
               Nodes |-> pr.Nodes,
               TotalNodes |-> Len(pr.Nodes),
               UnschedulablePods |-> pr.UnschedulablePods,
               TotalCPU |-> 0, TotalMemory |-> 0, UsedCPU |-> 0, UsedMemory |-> 0,
               TotalCost |-> 0,
               AvgCPUUtilization |-> Frac(0, 1), AvgMemUtilization |-> Frac(0, 1),
               Fragmentation |-> ZeroFragmentationReport,
               ScalingEfficiency |-> Null]
        all == DOMAIN pr.Nodes
    IN  IF Len(pr.Nodes) = 0 THEN sr
        ELSE [sr EXCEPT
                 !.TotalCPU = SumOver([k \in all |-> pr.Nodes[k].Template.AllocatableCPUMillis], all),
                 !.TotalMemory = SumOver([k \in all |-> pr.Nodes[k].Template.AllocatableMemoryBytes], all),
                 !.UsedCPU = SumOver([k \in all |-> pr.Nodes[k].UsedCPU], all),
                 !.UsedMemory = SumOver([k \in all |-> pr.Nodes[k].UsedMem], all),
                 !.TotalCost = SumOver([k \in all |-> MonthlyCost(pr.Nodes[k].Template)], all),
                 !.AvgCPUUtilization =
                     FracOver(FracTotal([k \in all |->
                                  Lowest(pr.Nodes[k].CPUUtilization.n, pr.Nodes[k].CPUUtilization.d)],
                                        Len(pr.Nodes)), Len(pr.Nodes)),
                 !.AvgMemUtilization =
                     FracOver(FracTotal([k \in all |->
                                  Lowest(pr.Nodes[k].MemUtilization.n, pr.Nodes[k].MemUtilization.d)],
                                        Len(pr.Nodes)), Len(pr.Nodes)),
                 !.Fragmentation = AnalyzeFragmentation(pr.Nodes),
                 !.ScalingEfficiency =
                     IF agg # Null /\ agg.MaxNodeCount > 0 /\ Len(pr.Nodes) > 0
                     THEN EstimateScalingEfficiency(pr, scn, agg)
                     ELSE Null]

\* A template without capacity.
ZeroCapacityTemplate ==
    [InstanceType |-> "none", InstanceFamily |-> "none",
     AllocatableCPUMillis |-> 0, AllocatableMemoryBytes |-> 0,
     MaxPods |-> 2, OnDemandPricePerHour |-> 1,
     CapacityType |-> CapacityOnDemand]

\* The allocations Pack returns for a node holding one workload, without
\* overhead, and for a node of no capacity holding nothing.
AllocationShapes ==
    {Allocation(place(openNode(t, ResourceQuantity(0, 0), ResourceQuantity(0, 0)),
                      Workload(1, shape[1], shape[2]))) :
        <<t, shape>> \in {c \in Catalogue \X BestFitShapes :
                             /\ c[2][1] <= c[1].AllocatableCPUMillis
                             /\ c[2][2] <= c[1].AllocatableMemoryBytes
                             /\ c[1].MaxPods > 0}}
    \cup {Allocation(openNode(ZeroCapacityTemplate, ResourceQuantity(0, 0),
                              ResourceQuantity(0, 0)))}

PackResults ==
    [Nodes : SeqUpTo(AllocationShapes, MaxAllocations), UnschedulablePods : {<<>>}]

\* Aggregate metrics: nil, or observed node counts with min <= max and the
\* P95 CPU in thousandths of a core.
AggregateMetricsValues ==
    {Null} \cup
    {a \in [P95CPUCores : {1, 9}, MinNodeCount : {0, 1, 2}, MaxNodeCount : {0, 2, 3}] :
        a.MinNodeCount <= a.MaxNodeCount}

InitBuild ==
    /\ state = Null
    /\ scenario \in [InstanceTypes : {<<>>}, SpotRatio : {[num |-> 0, den |-> 1]},
                     MinNodes : {0, 2}]
    /\ cfgMaxNodes = 0
    /\ via = "none"
    /\ input = Null
    /\ ctxErr = FALSE
    /\ pc = "packed"
    /\ workloads = <<>>
    /\ i = 1
    /\ nodes = <<>>
    /\ unschedulable = <<>>
    /\ placedOpen = 0
    /\ result \in PackResults
    /\ RankUnused
    /\ GenUnused
    /\ EngineUnused
    /\ PrepUnused
    /\ aggMetrics \in AggregateMetricsValues
    /\ simResult = Null

\* runOne after Pack has returned: the SimulationResult is built.
BuildSimulationResult ==
    /\ pc = "packed"
    /\ pc' = "built"
    /\ simResult' = buildSimulationResult(result, scenario, aggMetrics)
    /\ UNCHANGED <<state, scenario, cfgMaxNodes, via, input, ctxErr, workloads, i, nodes,
                   unschedulable, placedOpen, result, rankVars, genVars, engineVars,
                   prepVars, aggMetrics>>

\* AnalyzeFragmentation called on the nodes by itself; simResult holds the
\* report alone.
AnalyzeFragmentationCall ==
    /\ pc = "packed"
    /\ pc' = "analyzed"
    /\ simResult' = [Fragmentation |-> AnalyzeFragmentation(result.Nodes)]
    /\ UNCHANGED <<state, scenario, cfgMaxNodes, via, input, ctxErr, workloads, i, nodes,
                   unschedulable, placedOpen, result, rankVars, genVars, engineVars,
                   prepVars, aggMetrics>>

NextBuild == BuildSimulationResult \/ AnalyzeFragmentationCall

SpecBuild == InitBuild /\ [][NextBuild]_vars

-----------------------------------------------------------------------------
(* Properties of Pack *)

\* How often workload w is listed in sequence ws.
Occurrences(ws, w) == Cardinality({k \in DOMAIN ws : ws[k] = w})

\* How often w is listed on the nodes of a PackResult.
PlacedOccurrences(res, w) ==
    SumOver([k \in DOMAIN res.Nodes |-> Occurrences(res.Nodes[k].Workloads, w)],
            DOMAIN res.Nodes)

SumCPU(ws) == SumOver([k \in DOMAIN ws |-> ws[k].EffectiveCPUMillis], DOMAIN ws)

SumMem(ws) == SumOver([k \in DOMAIN ws |-> ws[k].EffectiveMemoryBytes], DOMAIN ws)

\* allocatable - daemonset overhead - system_reserved of template t.
AvailCPU(t) ==
    t.AllocatableCPUMillis - daemonSetOverhead(input.DaemonSets).CPUMillis
        - input.SystemReserved.CPUMillis

AvailMem(t) ==
    t.AllocatableMemoryBytes - daemonSetOverhead(input.DaemonSets).MemoryBytes
        - input.SystemReserved.MemoryBytes

InPack == pc \in {"place", "padded", "build", "done"}

\* C1: when Pack returns without error, every input workload is listed
\* exactly once across the nodes' workload lists and the unschedulable list,
\* and nothing else is listed.
C1_EveryWorkloadExactlyOnce ==
    pc = "done" =>
        /\ \A k \in DOMAIN input.Workloads :
               PlacedOccurrences(result, input.Workloads[k])
                   + Occurrences(result.UnschedulablePods, input.Workloads[k]) = 1
        /\ SumOver([k \in DOMAIN result.Nodes |-> Len(result.Nodes[k].Workloads)],
                   DOMAIN result.Nodes)
               + Len(result.UnschedulablePods) = Len(input.Workloads)

C1_Witness ==
    /\ pc = "done"
    /\ Len(result.Nodes) >= 2
    /\ Len(result.UnschedulablePods) >= 1
    /\ Len(input.Workloads) = 3

\* C2: after every placement step and in the result, the demand placed on
\* each open node is within allocatable - daemonset overhead -
\* system_reserved in both dimensions, and no remaining capacity is negative.
C2_NodeCapacityRespected ==
    /\ InPack =>
           \A j \in DOMAIN nodes :
               /\ nodes[j].remainingCPU >= 0
               /\ nodes[j].remainingMem >= 0
               /\ SumCPU(nodes[j].workloads) <= AvailCPU(nodes[j].template)
               /\ SumMem(nodes[j].workloads) <= AvailMem(nodes[j].template)
    /\ pc = "done" =>
           \A j \in DOMAIN result.Nodes :
               /\ SumCPU(result.Nodes[j].Workloads) <= AvailCPU(result.Nodes[j].Template)
               /\ SumMem(result.Nodes[j].Workloads) <= AvailMem(result.Nodes[j].Template)

C2_Witness ==
    /\ pc = "done"
    /\ Len(input.DaemonSets) > 0
    /\ input.SystemReserved.CPUMillis > 0
    /\ \E j \in DOMAIN result.Nodes :
           /\ Len(result.Nodes[j].Workloads) = 2
           /\ SumCPU(result.Nodes[j].Workloads) = AvailCPU(result.Nodes[j].Template)

\* C3: every node of the result has pod_count <= max_pods of its template.
C3_PodCountWithinMaxPods ==
    pc = "done" =>
        \A j \in DOMAIN result.Nodes :
            result.Nodes[j].PodCount <= result.Nodes[j].Template.MaxPods

\* C5: with MaxNodes > 0 the number of open nodes never exceeds MaxNodes, in
\* no step and not in the result; a workload that would need a further node
\* does not make Pack fail (Pack fails only on cancellation).
C5_MaxNodesRespected ==
    /\ (InPack /\ input.MaxNodes > 0) => Len(nodes) <= input.MaxNodes
    /\ (pc = "done" /\ input.MaxNodes > 0) => Len(result.Nodes) <= input.MaxNodes
    /\ pc = "error" => ctxErr

\* A workload was turned away at the cap although a template admits it.
C5_Witness ==
    /\ pc = "done"
    /\ input.MaxNodes > 0
    /\ Len(result.Nodes) = input.MaxNodes
    /\ \E k \in DOMAIN result.UnschedulablePods :
           selectBestTemplate(input.NodeTemplates, result.UnschedulablePods[k],
               daemonSetOverhead(input.DaemonSets), input.SystemReserved) # 0

\* SimulationResult.TotalNodes of a run: len(pr.Nodes).
TotalNodes(pr) == Len(pr.Nodes)

\* C6: a scenario run through the engine with simulation.max_nodes = M > 0
\* ends with TotalNodes <= M.
C6_EngineHonoursMaxNodes ==
    (via = "engine" /\ pc = "done" /\ cfgMaxNodes > 0) =>
        TotalNodes(result) <= cfgMaxNodes

\* C8 as stated: used <= allocatable, and used equals the summed effective
\* demand of the workloads listed on the node.
C8_UsedEqualsWorkloadSum ==
    pc = "done" =>
        \A j \in DOMAIN result.Nodes :
            LET a == result.Nodes[j]
            IN  /\ a.UsedCPU <= a.Template.AllocatableCPUMillis
                /\ a.UsedMem <= a.Template.AllocatableMemoryBytes
                /\ a.UsedCPU = SumCPU(a.Workloads)
                /\ a.UsedMem = SumMem(a.Workloads)

\* C8 amended: used <= allocatable, and used equals the summed effective
\* demand of the node's workloads plus the summed daemonset demand plus
\* system_reserved.
C8_UsedIncludesOverhead ==
    pc = "done" =>
        \A j \in DOMAIN result.Nodes :
            LET a == result.Nodes[j]
            IN  /\ a.UsedCPU <= a.Template.AllocatableCPUMillis
                /\ a.UsedMem <= a.Template.AllocatableMemoryBytes
                /\ a.UsedCPU = SumCPU(a.Workloads) + SumCPU(input.DaemonSets)
                                   + input.SystemReserved.CPUMillis
                /\ a.UsedMem = SumMem(a.Workloads) + SumMem(input.DaemonSets)
                                   + input.SystemReserved.MemoryBytes

C8_Witness ==
    /\ pc = "done"
    /\ Len(input.DaemonSets) > 0
    /\ input.SystemReserved.CPUMillis > 0
    /\ \E j \in DOMAIN result.Nodes :
           /\ Len(result.Nodes[j].Workloads) = 2
           /\ result.Nodes[j].UsedCPU > SumCPU(result.Nodes[j].Workloads)

\* round(n * ratio), half rounded up: the integer k with k <= n*ratio + 1/2 < k+1.
HalfUpRound(n, r) ==
    CHOOSE k \in 0..(n * r.num + 1) :
        /\ 2 * r.den * k <= 2 * n * r.num + r.den
        /\ 2 * n * r.num + r.den < 2 * r.den * (k + 1)

\* The nodes of the sequence as tagged with capacity type c.
TaggedAs(ns, c) == {j \in DOMAIN ns : ns[j].template.CapacityType = c}

\* The spot assignment of before into after: k nodes are spot and the others
\* on-demand, every spot node has consumed less CPU than every on-demand
\* node or as much and was opened earlier, and nothing but the tags changed.
SpotAssignmentOK(beforeNodes, afterNodes, ratio) ==
    LET n == Len(beforeNodes)
        r == HalfUpRound(n, ratio)
        k == IF r > n THEN n ELSE r
        spot == TaggedAs(afterNodes, CapacitySpot)
        onDemand == TaggedAs(afterNodes, CapacityOnDemand)
    IN  /\ Len(afterNodes) = n
        /\ \A j \in 1..n :
               [afterNodes[j] EXCEPT !.template.CapacityType =
                    beforeNodes[j].template.CapacityType] = beforeNodes[j]
        /\ Cardinality(spot) = k
        /\ spot \cup onDemand = 1..n
        /\ \A a \in spot : \A b \in onDemand :
               \/ ConsumedCPU(beforeNodes[a]) < ConsumedCPU(beforeNodes[b])
               \/ /\ ConsumedCPU(beforeNodes[a]) = ConsumedCPU(beforeNodes[b])
                  /\ a < b

\* C9: with spot_ratio > 0 the spot assignment tags exactly
\* k = round(total_nodes * spot_ratio) nodes (half up, capped) as spot and the
\* others on-demand, the spot nodes being the k with the least consumed CPU,
\* ties by opening order, and leaves the node order alone; the result lists
\* the nodes as tagged.
C9_SpotAssignment ==
    /\ [][(pc = "place" /\ pc' = "build" /\ input.SpotRatio.num > 0)
              => SpotAssignmentOK(nodes, nodes', input.SpotRatio)]_vars
    /\ [](pc = "done" /\ Len(input.NodeTemplates) > 0 =>
              /\ Len(result.Nodes) = Len(nodes)
              /\ \A j \in DOMAIN nodes :
                     /\ result.Nodes[j].Template = nodes[j].template
                     /\ result.Nodes[j].Workloads = nodes[j].workloads
                     /\ result.Nodes[j].UsedCPU = ConsumedCPU(nodes[j]))

\* A later, less loaded node is spot while an earlier one stays on-demand.
C9_Witness ==
    /\ pc = "done"
    /\ input.SpotRatio.num > 0
    /\ \E a, b \in DOMAIN result.Nodes :
           /\ a < b
           /\ result.Nodes[a].Template.CapacityType = CapacityOnDemand
           /\ result.Nodes[b].Template.CapacityType = CapacitySpot
           /\ result.Nodes[b].UsedCPU < result.Nodes[a].UsedCPU

-----------------------------------------------------------------------------
(* Properties of the padding *)

-----------------------------------------------------------------------------
(* Ranking *)

\* a <= b for two scores, compared as fractions.
ScoreLeq(a, b) == IF a.d = b.d THEN a.n <= b.n ELSE a.n * b.d <= b.n * a.d

Ranked == pc = "ranked"

\* C10: RankResults returns one recommendation per input result, in order of
\* overall score from highest to lowest, ranked 1..N in list order, and two
\* results with the same overall score stay in the order they were given in.
C10_RankResultsOrdering ==
    Ranked =>
        /\ Len(recs) = Len(results)
        /\ \A k \in DOMAIN results :
               Cardinality({j \in DOMAIN recs : recs[j].SimulationResult = results[k]}) = 1
        /\ \A j \in DOMAIN recs : recs[j].Rank = j
        /\ \A j \in DOMAIN recs : \A l \in DOMAIN recs :
               j < l =>
                   /\ ScoreLeq(recs[l].OverallScore, recs[j].OverallScore)
                   /\ ScoreLeq(recs[j].OverallScore, recs[l].OverallScore)
                          => recs[j].SimulationResult.Scenario
                                 < recs[l].SimulationResult.Scenario

\* Three results ranked, the first given not ranked first, and two different
\* results tied on overall score.
C10_Witness ==
    /\ Ranked
    /\ Len(recs) = 3
    /\ recs[1].SimulationResult.Scenario # 1
    /\ \E j \in 1..2 :
           /\ ScoreLeq(recs[j].OverallScore, recs[j + 1].OverallScore)
           /\ recs[j].SimulationResult.Result # recs[j + 1].SimulationResult.Result
    /\ \E j \in 1..2 :
           ~ScoreLeq(recs[j].OverallScore, recs[j + 1].OverallScore)

-----------------------------------------------------------------------------
(* Scenario generation *)

\* The scenarios of list g with the given strategy, in order.
OfStrategy(g, strategy) == SelectSeq(g, LAMBDA sc : sc.Strategy = strategy)

\* The distinct sizes the templates own in family fam.
SizesOf(templates, fam) ==
    {templates[k].Size : k \in {j \in DOMAIN templates : templates[j].InstanceFamily = fam}}

\* C19: under mixed (and the mixed part of both) there is exactly one scenario
\* per family owning at least two distinct sizes, holding every template of
\* that family, and none for any other family; under homogeneous (and that
\* part of both) exactly one singleton scenario per template; no templates,
\* no scenarios.
C19_ScenariosPerStrategy ==
    \A c \in DOMAIN generated :
        LET g == generated[c]
            hom == OfStrategy(g, "homogeneous")
            mix == OfStrategy(g, "mixed")
            fams == {genTemplates[k].InstanceFamily : k \in DOMAIN genTemplates}
        IN  /\ Len(g) = Len(hom) + Len(mix)
            /\ genTemplates = <<>> => g = <<>>
            /\ IF genStrategy \in {"homogeneous", "both"}
               THEN /\ Len(hom) = Len(genTemplates)
                    /\ \A k \in DOMAIN genTemplates :
                           Cardinality({j \in DOMAIN hom :
                               hom[j].InstanceTypes = <<genTemplates[k]>>}) = 1
               ELSE hom = <<>>
            /\ IF genStrategy \in {"mixed", "both"}
               THEN /\ \A fam \in fams :
                           Cardinality({j \in DOMAIN mix :
                               \E t \in DOMAIN mix[j].InstanceTypes :
                                   mix[j].InstanceTypes[t].InstanceFamily = fam})
                               = IF Cardinality(SizesOf(genTemplates, fam)) >= 2 THEN 1 ELSE 0
                    /\ \A j \in DOMAIN mix :
                           \E fam \in fams :
                               {mix[j].InstanceTypes[t] : t \in DOMAIN mix[j].InstanceTypes}
                                   = {genTemplates[k] : k \in {x \in DOMAIN genTemplates :
                                          genTemplates[x].InstanceFamily = fam}}
               ELSE mix = <<>>

\* Strategy both, on templates with a two-size family and a one-size family.
C19_Witness ==
    /\ generated # <<>>
    /\ genStrategy = "both"
    /\ Len(genTemplates) = 3
    /\ Len(OfStrategy(generated[1], "mixed")) = 1
    /\ Len(OfStrategy(generated[1], "homogeneous")) = 3
    /\ \E k \in DOMAIN genTemplates : genTemplates[k].InstanceFamily = "r5"

\* C11: two calls of GenerateScenarios with the same templates, strategy,
\* spot ratio and min_nodes give the scenarios in the same order.
C11_SameScenarioOrder ==
    Len(generated) = 2 => generated[1] = generated[2]

-----------------------------------------------------------------------------
(* Engine.RunAll *)

Returned == pc = "engine" /\ enginePc = "returned"

\* Workers whose call of runOne has returned.
PastPacking(ws) ==
    {w \in DOMAIN ws : ws[w].pc \in {"storeResult", "storeErr", "release", "done", "exited"}}

\* Workers whose packing ended on the cancelled context.
CancelledWorkers(ws) == {w \in DOMAIN ws : ws[w].err = ErrPacking(ErrCanceled)}

\* C12: a worker that still has a context check ahead of it when the context
\* is cancelled returns the cancellation error; and when any worker did,
\* RunAll returns the cancellation error and no recommendations, so a
\* ranking is never built from the scenarios that finished before.
C12_CancellationNoPartialRanking ==
    /\ \A w \in mustCancel \cap PastPacking(workers) :
           workers[w].err = ErrPacking(ErrCanceled)
    /\ Returned /\ (mustCancel # {} \/ CancelledWorkers(workers) # {})
           => runErr = ErrCanceled /\ runRecs = <<>>

\* RunAll has returned the cancellation error after one worker finished its
\* packing with a result and another was cancelled.
C12_Witness ==
    /\ Returned
    /\ runErr = ErrCanceled
    /\ runRecs = <<>>
    /\ \E w \in mustCancel : workers[w].err = ErrPacking(ErrCanceled)
    /\ \E w \in DOMAIN workers :
           workers[w].err = NoErr /\ slotResults[w] = RunOneResult(w)

\* The scenarios whose packing succeeds.
Succeeding == {k \in 1..runScenarios : ~packFails[k]}

\* C13: with the context not cancelled, RunAll returns an error and no
\* recommendations exactly when the scenario list is empty or every
\* scenario's packing failed, and otherwise returns, without error, exactly
\* one recommendation for each scenario whose packing succeeded.
C13_FailedScenariosDropped ==
    Returned /\ ~ctxErr =>
        IF Succeeding = {}
        THEN runErr \in {ErrNoScenarios, ErrAllFailed} /\ runRecs = <<>>
        ELSE /\ runErr = NoErr
             /\ Len(runRecs) = Cardinality(Succeeding)
             /\ \A k \in 1..runScenarios :
                    Cardinality({j \in DOMAIN runRecs :
                        runRecs[j].SimulationResult = RunOneResult(k)})
                        = IF k \in Succeeding THEN 1 ELSE 0

\* Three scenarios, the context never cancelled, one packing failed: two
\* recommendations are returned.
C13_Witness ==
    /\ Returned
    /\ ~ctxErr
    /\ runScenarios = 3
    /\ Cardinality(Succeeding) = 2
    /\ runErr = NoErr
    /\ Len(runRecs) = 2

\* C14: worker i writes only index i of results and errs, so no index is
\* written by two workers; the collector runs only when every worker has
\* exited; and what it collects at an index is what runOne returned for the
\* scenario at that position.
C14_OwnSlotAndJoinBarrier ==
    pc = "engine" =>
        /\ \A k \in DOMAIN slotWriters : slotWriters[k] \subseteq {k}
        /\ enginePc \in {"collect", "returned"} /\ runScenarios > 0
               => \A w \in DOMAIN workers : workers[w].pc = "exited"
        /\ \A j \in DOMAIN successful :
               \E k \in Succeeding : successful[j] = RunOneResult(k)
        /\ enginePc = "collect" =>
               \A k \in 1..runScenarios :
                   /\ slotErrs[k] = workers[k].err
                   /\ slotResults[k] = workers[k].result
                   /\ slotErrs[k] = NoErr => slotResults[k] = RunOneResult(k)

\* Two workers were packing at the same time, and the collector has taken
\* the results of three.
C14_Witness ==
    /\ pc = "engine"
    /\ enginePc = "collect"
    /\ parallelism = 2
    /\ Len(successful) = 3
    /\ \A k \in DOMAIN slotWriters : slotWriters[k] = {k}

-----------------------------------------------------------------------------
(* Scores *)

\* 0 <= x <= 100 for a score x.
InRange(x) == x.d > 0 /\ 0 <= x.n /\ x.n <= 100 * x.d

WeightsSumToOne(w) == w.Cost + w.Utilization + w.Fragmentation + w.Resilience = 100

\* C15: every recommendation's cost, utilisation, fragmentation and
\* resilience score lies in [0,100], and so does the overall score when the
\* weights are non-negative and sum to 1.
C15_ScoresInRange ==
    Ranked =>
        \A j \in DOMAIN recs :
            /\ InRange(recs[j].CostScore)
            /\ InRange(recs[j].UtilizationScore)
            /\ InRange(recs[j].FragmentationScore)
            /\ InRange(recs[j].ResilienceScore)
            /\ WeightsSumToOne(scorer.Weights) => InRange(recs[j].OverallScore)

\* Scores at both ends of the range: a resilience score held at 0 by the
\* floor, a cost score of 0 and one of 100, a utilisation score of 100.
C15_Witness ==
    /\ Ranked
    /\ scorer.DaemonSetCount > 0
    /\ \E j \in DOMAIN recs :
           /\ recs[j].ResilienceScore.n = 0
           /\ recs[j].SimulationResult.Result.TotalNodes > 100
           /\ recs[j].CostScore.n = 0
    /\ \E j \in DOMAIN recs :
           recs[j].CostScore.n = 100 * recs[j].CostScore.d /\ recs[j].CostScore.d > 1
    /\ \E j \in DOMAIN recs :
           recs[j].UtilizationScore.n = 100 * recs[j].UtilizationScore.d

\* C16: with the cost weight 1 and the others 0 the first recommendation has
\* the least total cost of all results; with the utilisation weight 1 and the
\* others 0 it has the greatest (avg_cpu_util + avg_mem_util)/2.
C16_SingleWeightOptimal ==
    Ranked /\ Len(recs) > 0 =>
        /\ scorer.Weights = ScoringWeights(100, 0, 0, 0) =>
               \A k \in DOMAIN results :
                   recs[1].SimulationResult.Result.TotalCost <= results[k].Result.TotalCost
        /\ scorer.Weights = ScoringWeights(0, 100, 0, 0) =>
               \A k \in DOMAIN results :
                   recs[1].SimulationResult.Result.AvgCPUUtilization
                       + recs[1].SimulationResult.Result.AvgMemUtilization
                       >= results[k].Result.AvgCPUUtilization
                              + results[k].Result.AvgMemUtilization

\* Cost only: three results of three different costs, the cheapest given last.
C16_Witness ==
    /\ Ranked
    /\ scorer.Weights = ScoringWeights(100, 0, 0, 0)
    /\ Len(results) = 3
    /\ results[3].Result.TotalCost < results[2].Result.TotalCost
    /\ results[2].Result.TotalCost < results[1].Result.TotalCost
    /\ recs[1].SimulationResult = results[3]

-----------------------------------------------------------------------------
(* Classification *)

Classified == pc = "classified"

\* The class and ratio for vcpus cores and mem memory units, as the buckets
\* are stated: below 3 GiB per vCPU compute, above 6 memory, else general,
\* and (general, 4) for no CPU at all.
ExpectedClass(vcpus, mem) ==
    IF vcpus.n = 0 THEN [class |-> WorkloadClassGeneral, n |-> 4, d |-> 1]
    ELSE LET n == mem * vcpus.d
             d == UnitsPerGiB * vcpus.n
         IN  [class |-> IF n < 3 * d THEN WorkloadClassCompute
                        ELSE IF n > 6 * d THEN WorkloadClassMemory
                        ELSE WorkloadClassGeneral,
              n |-> n, d |-> d]

\* classified is the class e.class with a ratio equal to e.n / e.d.
ClassifiedAs(e) ==
    /\ classified.class = e.class
    /\ classified.ratio.n * e.d = e.n * classified.ratio.d

FromAggregate ==
    ExpectedClass(Frac(state.AggregateMetrics.P95CPUCores, 1),
                  state.AggregateMetrics.P95MemoryBytes)

FromWorkloads ==
    ExpectedClass(Frac(TotalEffectiveCPU(state), MillisPerCore), TotalEffectiveMemory(state))

\* C17 as stated: the ratio comes from the aggregate P95 values whenever
\* aggregate metrics are present, from the summed effective demand otherwise,
\* and a zero vCPU quantity gives (general-purpose, 4.0).
C17_ClassifyAsStated ==
    Classified =>
        IF state.AggregateMetrics # Null
        THEN ClassifiedAs(FromAggregate)
        ELSE ClassifiedAs(FromWorkloads)

\* C17: the ratio comes from the aggregate P95 values when aggregate metrics
\* are present with both P95 values above zero, from the summed effective
\* demand of the workloads otherwise; below 3 is compute-optimized, above 6
\* memory-optimized, 3 to 6 general-purpose; a zero vCPU quantity gives
\* (general-purpose, 4.0).
C17_Classify ==
    Classified =>
        IF /\ state.AggregateMetrics # Null
           /\ state.AggregateMetrics.P95CPUCores > 0
           /\ state.AggregateMetrics.P95MemoryBytes > 0
        THEN ClassifiedAs(FromAggregate)
        ELSE ClassifiedAs(FromWorkloads)

\* An aggregate with no P95 memory beside workloads at exactly 6 GiB per
\* vCPU: the workloads decide, and 6 is general-purpose.
C17_Witness ==
    /\ Classified
    /\ state.AggregateMetrics # Null
    /\ state.AggregateMetrics.P95CPUCores > 0
    /\ state.AggregateMetrics.P95MemoryBytes = 0
    /\ TotalEffectiveCPU(state) = 2 * MillisPerCore
    /\ TotalEffectiveMemory(state) = 12 * UnitsPerGiB
    /\ classified.class = WorkloadClassGeneral

-----------------------------------------------------------------------------
(* Sizing *)

Sized == pc = "sized"

\* C18: the effective CPU of a built workload is at least its requested CPU
\* and at least 10 millicores, its effective memory at least its requested
\* memory and at least 64 MiB; no_metrics is set exactly when the P95 CPU
\* usage and the P95 memory usage are both zero, and then the effective
\* demand is the request raised to those minimums.
C18_EffectiveDemandFloors ==
    Sized =>
        /\ profile.EffectiveCPUMillis >= Max2(profile.Requested.CPUMillis, 10)
        /\ profile.EffectiveMemoryBytes >= Max2(profile.Requested.MemoryBytes, 64)
        /\ profile.NoMetrics <=> (sample.cpuUsage.P95 = 0 /\ sample.memUsage.P95 = 0)
        /\ profile.NoMetrics =>
               /\ profile.EffectiveCPUMillis = Max2(profile.Requested.CPUMillis, 10)
               /\ profile.EffectiveMemoryBytes = Max2(profile.Requested.MemoryBytes, 64)

\* A pod with memory usage but no P95 CPU usage and a request under 10
\* millicores: not no_metrics, CPU raised to 10, memory sized by usage.
C18_Witness ==
    /\ Sized
    /\ sample.cpuUsage.P95 = 0
    /\ sample.memUsage.P95 > 0
    /\ ~profile.NoMetrics
    /\ profile.Requested.CPUMillis < 10
    /\ profile.EffectiveCPUMillis = 10
    /\ profile.EffectiveMemoryBytes > Max2(profile.Requested.MemoryBytes, 64)

-----------------------------------------------------------------------------
(* Validation *)

\* Four non-negative weights summing to 1, within one hundredth.
WeightsInRange(w) ==
    /\ w.Cost >= 0 /\ w.Utilization >= 0 /\ w.Fragmentation >= 0 /\ w.Resilience >= 0
    /\ w.Cost + w.Utilization + w.Fragmentation + w.Resilience >= 99
    /\ w.Cost + w.Utilization + w.Fragmentation + w.Resilience <= 101

\* C20: Validate returns an error when a scoring weight is negative or the
\* four weights do not sum to about 1.
C20_WeightsValidated ==
    pc = "validated" /\ ~WeightsInRange(cfg.Scoring.Weights) => validateErr # NoErr

-----------------------------------------------------------------------------
(* Properties of the placement loop *)

\* An iteration of the placement loop that got past the cancellation check.
PlacementStep == pc = "place" /\ i <= Len(workloads) /\ ~ctxErr /\ i' = i + 1

\* CPU, memory and pod_count < max_pods.
Fits(n, w) ==
    /\ w.EffectiveCPUMillis <= n.remainingCPU
    /\ w.EffectiveMemoryBytes <= n.remainingMem
    /\ n.podCount < n.template.MaxPods

\* The open nodes that fit the workload of this iteration.
Fitting == {j \in DOMAIN nodes : Fits(nodes[j], workloads[i])}

CapReached == input.MaxNodes > 0 /\ Len(nodes) >= input.MaxNodes

\* The workload of this iteration went onto open node j and nothing else changed.
PlacedOn(j) ==
    /\ Len(nodes') = Len(nodes)
    /\ nodes'[j].workloads = Append(nodes[j].workloads, workloads[i])
    /\ \A k \in DOMAIN nodes : k # j => nodes'[k] = nodes[k]
    /\ unschedulable' = unschedulable

MarkedUnschedulable ==
    nodes' = nodes /\ unschedulable' = Append(unschedulable, workloads[i])

OpenedNode ==
    /\ Len(nodes') = Len(nodes) + 1
    /\ \A k \in DOMAIN nodes : nodes'[k] = nodes[k]
    /\ nodes'[Len(nodes) + 1].workloads = <<workloads[i]>>
    /\ unschedulable' = unschedulable

\* C21: a workload goes onto an open node whenever one fits it, also after
\* max_nodes has been reached; a node is opened, or the workload is marked
\* unschedulable, only when no open node fits, and at the cap it is marked
\* unschedulable exactly then.
C21_OpenNodeFirst ==
    [][PlacementStep =>
          IF Fitting # {}
          THEN \E j \in Fitting : PlacedOn(j)
          ELSE /\ OpenedNode \/ MarkedUnschedulable
               /\ CapReached => MarkedUnschedulable]_vars

\* At the cap of one node: the second workload went onto the open node, the
\* third found no room and was marked unschedulable.
C21_Witness ==
    /\ pc = "place"
    /\ input.MaxNodes = 1
    /\ Len(nodes) = 1
    /\ Len(nodes[1].workloads) = 2
    /\ Len(unschedulable) = 1

\* (remaining CPU / allocatable CPU)^2 + (remaining memory / allocatable
\* memory)^2 of node n after w, as <<numerator, denominator>>.
NormSquared(n, w) ==
    LET ac == n.template.AllocatableCPUMillis
        am == n.template.AllocatableMemoryBytes
        rc == n.remainingCPU - w.EffectiveCPUMillis
        rm == n.remainingMem - w.EffectiveMemoryBytes
    IN  <<(rc * am) * (rc * am) + (rm * ac) * (rm * ac), (ac * am) * (ac * am)>>

TighterOrEqual(n, m, w) ==
    NormSquared(n, w)[1] * NormSquared(m, w)[2] <= NormSquared(m, w)[1] * NormSquared(n, w)[2]

\* C22: among the open nodes that fit, the workload goes onto the one with
\* the smallest norm of the remaining fractions after the placement, and onto
\* the earliest-opened of those that tie.
C22_BestFit ==
    [][(PlacementStep /\ Fitting # {}) =>
          \E j \in Fitting :
              /\ PlacedOn(j)
              /\ \A k \in Fitting :
                     /\ TighterOrEqual(nodes[j], nodes[k], workloads[i])
                     /\ TighterOrEqual(nodes[k], nodes[j], workloads[i]) => j <= k]_vars

\* The second workload of node 2 also fitted node 1, which still has room for
\* it, and node 2 was the strictly tighter fit.
C22_Witness ==
    /\ pc = "place"
    /\ Len(nodes) >= 2
    /\ Len(nodes[2].workloads) = 2
    /\ Fits(nodes[1], nodes[2].workloads[2])
    /\ LET w == nodes[2].workloads[2]
           before == [nodes[2] EXCEPT !.remainingCPU = @ + w.EffectiveCPUMillis,
                                      !.remainingMem = @ + w.EffectiveMemoryBytes]
       IN  ~TighterOrEqual(nodes[1], before, w)

\* The templates whose allocatable capacity minus daemonset overhead minus
\* system_reserved admits w.
Admitting(w) ==
    {k \in DOMAIN input.NodeTemplates :
        /\ w.EffectiveCPUMillis <= AvailCPU(input.NodeTemplates[k])
        /\ w.EffectiveMemoryBytes <= AvailMem(input.NodeTemplates[k])}

Cheapest(ks) ==
    CHOOSE k \in ks : \A m \in ks :
        \/ input.NodeTemplates[k].OnDemandPricePerHour < input.NodeTemplates[m].OnDemandPricePerHour
        \/ /\ input.NodeTemplates[k].OnDemandPricePerHour = input.NodeTemplates[m].OnDemandPricePerHour
           /\ k <= m

\* C23: when a node must be opened, it is of the cheapest template that
\* admits the workload, the earliest in the list on ties; if no template
\* admits it, the workload is marked unschedulable and no node is opened.
C23_CheapestTemplate ==
    [][(PlacementStep /\ Fitting = {} /\ ~CapReached) =>
          IF Admitting(workloads[i]) = {}
          THEN MarkedUnschedulable
          ELSE /\ OpenedNode
               /\ nodes'[Len(nodes) + 1].template =
                      input.NodeTemplates[Cheapest(Admitting(workloads[i]))]]_vars

\* The first node is of the second template, which is cheaper than the first
\* template, and the first template admits the node's first workload too.
C23_Witness ==
    /\ pc = "place"
    /\ Len(nodes) >= 1
    /\ Len(input.NodeTemplates) = 2
    /\ nodes[1].template = input.NodeTemplates[2]
    /\ input.NodeTemplates[2].OnDemandPricePerHour < input.NodeTemplates[1].OnDemandPricePerHour
    /\ 1 \in Admitting(nodes[1].workloads[1])
    /\ Len(unschedulable) >= 1

\* Workload a has at least the dominance of workload b: one of a's fractions
\* of the largest allocatable CPU and memory is at least both of b's.
DominatesOrEqual(a, b) ==
    LET maxCPU == SetMax({input.NodeTemplates[k].AllocatableCPUMillis : k \in DOMAIN input.NodeTemplates})
        maxMem == SetMax({input.NodeTemplates[k].AllocatableMemoryBytes : k \in DOMAIN input.NodeTemplates})
    IN  \/ /\ a.EffectiveCPUMillis >= b.EffectiveCPUMillis
           /\ a.EffectiveCPUMillis * maxMem >= b.EffectiveMemoryBytes * maxCPU
        \/ /\ a.EffectiveMemoryBytes >= b.EffectiveMemoryBytes
           /\ a.EffectiveMemoryBytes * maxCPU >= b.EffectiveCPUMillis * maxMem

\* The position of workload w in the input.
InputPosition(w) == CHOOSE k \in DOMAIN input.Workloads : input.Workloads[k] = w

\* C24: from the first placement on, the processing order is the input in
\* non-increasing order of dominance, workloads of equal dominance in their
\* input order, and it stays what it was before the first placement.
C24_DominanceOrder ==
    (pc \in {"place", "build", "done", "error"} /\ Len(input.NodeTemplates) > 0) =>
        /\ Len(workloads) = Len(input.Workloads)
        /\ {workloads[k] : k \in DOMAIN workloads}
               = {input.Workloads[k] : k \in DOMAIN input.Workloads}
        /\ \A a, b \in DOMAIN workloads :
               a < b =>
                   /\ DominatesOrEqual(workloads[a], workloads[b])
                   /\ DominatesOrEqual(workloads[b], workloads[a]) =>
                          InputPosition(workloads[a]) < InputPosition(workloads[b])

\* Placement has begun on three workloads, reordered against the input, two of
\* them of equal dominance.
C24_Witness ==
    /\ pc = "place"
    /\ i > 1
    /\ Len(workloads) = 3
    /\ workloads # input.Workloads
    /\ DominatesOrEqual(workloads[3], workloads[2])

-----------------------------------------------------------------------------
(* Properties of the resilience score *)

\* x - penalty, clamped at 0.
Reduced(x, penalty) == IF x - penalty < 0 THEN 0 ELSE x - penalty

\* The base for total_nodes, in points.
BaseFor(totalNodes) ==
    CASE totalNodes <= 1 -> 20
      [] totalNodes = 2 -> 50
      [] totalNodes \in 3..5 -> 90
      [] totalNodes \in 6..15 -> 100
      [] totalNodes \in 16..30 -> 85
      [] totalNodes \in 31..50 -> 70
      [] totalNodes \in 51..100 -> 55
      [] OTHER -> 40

\* The stated resilience score of result r under daemonset count ds, in
\* sixtieths of a point: 5 x ds x total / 100 is 3 x ds x total sixtieths,
\* and (0.30 - trough)/0.30 x 25 is 50 sixtieths per percent below 30.
StatedResilience(ds, r) ==
    LET total == r.TotalNodes
        unsched == Len(r.UnschedulablePods)
        step1 == IF ds > 0 /\ total > 5
                 THEN Reduced(60 * BaseFor(total),
                              IF 3 * ds * total < 60 * 20 THEN 3 * ds * total ELSE 60 * 20)
                 ELSE 60 * BaseFor(total)
        step2 == Reduced(step1, IF 10 * unsched < 50 THEN 60 * 10 * unsched ELSE 60 * 50)
        step3 == IF r.ScalingEfficiency # Null /\ r.ScalingEfficiency.EstTroughCPUUtil < 30
                 THEN Reduced(step2, 50 * (30 - r.ScalingEfficiency.EstTroughCPUUtil))
                 ELSE step2
    IN  step3

\* C26: the resilience score of every recommendation is the base for its
\* total_nodes reduced in turn, and clamped at 0 each time, by the daemonset
\* penalty, the unschedulable penalty and the trough penalty.
C26_ResilienceScore ==
    Ranked =>
        \A j \in DOMAIN recs :
            60 * recs[j].ResilienceScore.n =
                recs[j].ResilienceScore.d
                    * StatedResilience(scorer.DaemonSetCount, recs[j].SimulationResult.Result)

\* With daemonsets: one recommendation keeps a positive score after all three
\* penalties, one is clamped at 0, and one of three nodes has the base alone.
C26_Witness ==
    /\ Ranked
    /\ scorer.DaemonSetCount > 0
    /\ \E j \in DOMAIN recs :
           LET r == recs[j].SimulationResult.Result
           IN  /\ r.TotalNodes > 5
               /\ Len(r.UnschedulablePods) > 0
               /\ r.ScalingEfficiency # Null
               /\ r.ScalingEfficiency.EstTroughCPUUtil < 30
               /\ recs[j].ResilienceScore.n > 0
               /\ recs[j].ResilienceScore.n < 60 * 100
    /\ \E j \in DOMAIN recs :
           /\ Len(recs[j].SimulationResult.Result.UnschedulablePods) >= 5
           /\ recs[j].ResilienceScore.n = 0
    /\ \E j \in DOMAIN recs :
           /\ recs[j].SimulationResult.Result.TotalNodes = 3
           /\ recs[j].ResilienceScore.n = 90 * recs[j].ResilienceScore.d

-----------------------------------------------------------------------------
(* The sizing percentile left unset *)

\* C27: with the percentile option left at 0, the workload is sized at the
\* 0.95 percentile: its effective demand is what sizing at P95 gives.
C27_UnsetPercentileIsP95 ==
    (Sized /\ percentile = 0) =>
        /\ profile.EffectiveCPUMillis = buildWorkloadProfile(sample, 95).EffectiveCPUMillis
        /\ profile.EffectiveMemoryBytes = buildWorkloadProfile(sample, 95).EffectiveMemoryBytes

-----------------------------------------------------------------------------
(* Properties of the derived metrics *)

\* 1 - |cpu_util - mem_util| of a node allocation, with the utilisation Pack
\* reports for it (zero for a dimension without capacity).
BalanceOf(alloc) ==
    FracComplement(FracAbsDiff(Lowest(alloc.CPUUtilization.n, alloc.CPUUtilization.d),
                               Lowest(alloc.MemUtilization.n, alloc.MemUtilization.d)))

Balanced(alloc) ==
    alloc.CPUUtilization.n * alloc.MemUtilization.d
        = alloc.MemUtilization.n * alloc.CPUUtilization.d

\* C28: the resource-balance score is 1.0 for an empty node list and for a
\* list of nodes that each have cpu_util = mem_util; in general it is the
\* mean over all nodes of 1 - |cpu_util - mem_util| and lies in [0,1].
C28_BalanceScore ==
    pc = "analyzed" =>
        LET ns == result.Nodes
            balance == simResult.Fragmentation.ResourceBalanceScore
        IN  /\ Len(ns) = 0 => balance = Frac(1, 1)
            /\ (\A k \in DOMAIN ns : Balanced(ns[k])) => balance = Frac(1, 1)
            /\ Len(ns) > 0 =>
                   balance = FracOver(FracTotal([k \in DOMAIN ns |-> BalanceOf(ns[k])],
                                                Len(ns)), Len(ns))
            /\ balance.n >= 0 /\ balance.n <= balance.d

\* C29: with aggregate metrics the result has a scaling efficiency whose
\* trough_nodes is max(min_nodes, ceil(total_nodes x min/max observed nodes))
\* (the ratio being 1 when the observed max is 0) and whose trough_cpu_util
\* is P95 CPU x ratio x 1000 / (trough_nodes x alloc_cpu_per_node) clamped
\* into [0,1]; without aggregate metrics it has none.
C29_ScalingEfficiency ==
    pc = "built" =>
        LET total == Len(result.Nodes)
            se == simResult.ScalingEfficiency
            num == IF aggMetrics.MaxNodeCount = 0 THEN 1 ELSE aggMetrics.MinNodeCount
            den == IF aggMetrics.MaxNodeCount = 0 THEN 1 ELSE aggMetrics.MaxNodeCount
            trough == Max2(scenario.MinNodes, (total * num + den - 1) \div den)
            allocPerNode == result.Nodes[1].Template.AllocatableCPUMillis
            demand == aggMetrics.P95CPUCores * num
            supply == den * trough * allocPerNode
        IN  IF aggMetrics = Null
            THEN se = Null
            ELSE /\ se # Null
                 /\ se.EstTroughNodes = trough
                 /\ se.EstTroughCPUUtil.n <= se.EstTroughCPUUtil.d
                 /\ (total > 0 /\ supply > 0) =>
                        IF demand >= supply
                        THEN se.EstTroughCPUUtil.n = se.EstTroughCPUUtil.d
                        ELSE se.EstTroughCPUUtil.n * supply = demand * se.EstTroughCPUUtil.d

-----------------------------------------------------------------------------
(* Termination of RunAll *)

\* The workers that hold a slot of the semaphore.
InFlight ==
    {w \in DOMAIN workers : workers[w].pc \in {"pack", "storeResult", "storeErr", "release"}}

\* C30: whatever the Parallelism, at most Parallelism packings are in flight
\* at any time, and RunAll eventually returns with every worker finished.
C30_RunAllReturns ==
    /\ [](pc = "engine" => Cardinality(InFlight) <= parallelism)
    /\ <>(enginePc = "returned" /\ \A w \in DOMAIN workers : workers[w].pc = "exited")

====
